---- MODULE Spec2Model ----
(***************************************************************************)
(* Model of dockerfile_ai: resilience.py (the CircuitBreaker class with    *)
(* its concurrent call_async callers, the retry executors retry_async and  *)
(* retry_sync, the two validators), the streaming decoder and the          *)
(* Dockerfile extractor of cli.py, and the analyze tool of mcp_server.py.  *)
(*                                                                         *)
(* Spec       the circuit breaker, called directly and through call_async  *)
(*            by concurrent tasks of one event loop, with a clock.         *)
(* SpecRetry  one retry_async and one retry_sync invocation running the    *)
(*            same scripted operation under the same RetryConfig.          *)
(* SpecDelay  RetryConfig.get_delay applied to bounded policies, attempts  *)
(*            and random draws.                                            *)
(* SpecRetryLive SpecRetry with weak fairness on attempts and wakes.       *)
(* SpecLoop     two retrying tasks sharing one event loop.                 *)
(* SpecCompose  retry wrapped around the breaker's call_async.             *)
(* SpecValidate validate_ollama_connection over probe outcomes.            *)
(* SpecModels   check_model_available over listing bodies.                 *)
(* SpecDecode   the streaming decoder over bounded response bodies.        *)
(* SpecExtract  the extractor over bounded analysis texts.                 *)
(* SpecTool     analyze_dockerfile_tool over arguments and environments.   *)
(***************************************************************************)
EXTENDS Integers, Sequences, FiniteSets, TLC

\* ---------------------------------------------------------------- bounds
MaxRetries == 2     \* RetryConfig.max_retries ranges over 0..MaxRetries
MaxThreshold == 2   \* failure_threshold ranges over 1..MaxThreshold
MaxTimeout == 1     \* recovery_timeout ranges over 0..MaxTimeout
MaxTime == 3        \* the clock time.time() ranges over 0..MaxTime
MaxFailures == 3    \* record_failure is not called beyond this count
MaxInitial == 2     \* initial_delay ranges over 1..MaxInitial seconds
MaxDelay == 5       \* max_delay ranges over initial_delay..MaxDelay seconds
MaxBase == 3        \* exponential_base ranges over 2..MaxBase
MaxAttempt == 5     \* get_delay is applied to attempts 0..MaxAttempt
RandDen == 4        \* random.random() draws k / RandDen, k in 0..RandDen-1
FloatMax == 16      \* stands for the largest finite float: a power beyond
                    \* it makes the ** of line 51 raise OverflowError
MaxNameLen == 2     \* model names have at most MaxNameLen characters
MaxModels == 2      \* a listing holds at most MaxModels entries
MaxLines == 3       \* a response body has at most MaxLines lines
MaxTextLen == 1     \* a fragment's text has at most MaxTextLen characters
MaxTextLines == 5   \* an analysis text has at most MaxTextLines lines

\* ------------------------------------------------------- values and errors
\* last_failure_time = None (resilience.py:275); clock readings are >= 0.
None == -1

\* What the wrapped operation can return.
Values == {"success", "result"}

\* The *args and **kwargs a retry executor is called with.
CallArgs == <<"arg1", "arg2", "kwarg1=value1", "kwarg2=value2">>

\* Classes of what the wrapped operation can raise. `except Exception`
\* (resilience.py:93, 142, 347) catches the first set only; the classes of
\* the second set derive from BaseException directly.
ExceptionClasses == {"ValueError", "OllamaConnectionError"}
BaseOnlyClasses == {"CancelledError"}
ErrorClasses == ExceptionClasses \cup BaseOnlyClasses

\* An outcome is a returned value or a raised error object.  src tells who
\* created the object, at is the invocation of the operation that created
\* it (0 when that does not matter), so two raised errors of one class are
\* still two objects.
Return(v, n) == [tag |-> "return", val |-> v, src |-> "op", at |-> n]
Raise(c, who, n) == [tag |-> "raise", val |-> c, src |-> who, at |-> n]
NoResult == [tag |-> "none", val |-> "None", src |-> "none", at |-> 0]

\* The `except Exception` clauses: does the handler catch this raised error?
IsException(o) == o.tag = "raise" /\ o.val \in ExceptionClasses

OpOutcomes(n) ==
    {Return(v, n) : v \in Values} \cup {Raise(c, "op", n) : c \in ErrorClasses}

\* ------------------------------------------------------------- the state
VARIABLES
    cb,       \* the CircuitBreaker instance: its five fields
    now,      \* the clock read by time.time()
    calls,    \* calls[p]: the call_async invocation of task p
    last,     \* history: the last breaker operation, its pre-state and result
    streak,   \* history: failures recorded since the last success / recovery
    config,   \* the RetryConfig of the retry invocations
    script,   \* script[n]: what the operation does on its n-th invocation
    rs,       \* rs[v]: the retry invocation v
    dl,       \* the last call of config.get_delay: arguments, draw, result
    draws,    \* draws[n]: what random.random() returns in the n-th get_delay
    thread,   \* the task that holds the event loop's thread, or "free"
    vc,       \* the call of validate_ollama_connection: arguments, probe, result
    mc,       \* the call of check_model_available: arguments, listing, result
    qo,       \* the decoding of a response body by query_ollama
    ex,       \* the scan of an analysis text by extract_dockerfile_content
    tool      \* the analyze_dockerfile tool call: arguments, position, result

vars == <<cb, now, calls, last, streak, config, script, rs, dl, draws, thread,
          vc, mc, qo, ex, tool>>
breakerVars == <<cb, now, calls, last, streak>>
ioVars == <<vc, mc, qo, ex, tool>>
resilienceVars == <<config, script, rs, dl, draws, thread, breakerVars>>
retryVars == <<config, script, rs, dl, draws, thread, ioVars>>

Procs == {"t1", "t2"}
Variants == {"retry_async", "retry_sync"}

\* ------------------------------------------------------- CircuitBreaker
\* CircuitBreaker.__init__
CircuitBreaker(threshold, timeout) ==
    [failure_threshold |-> threshold,
     recovery_timeout  |-> timeout,
     failure_count     |-> 0,
     last_failure_time |-> None,
     is_open           |-> FALSE]

\* variant: the count is reset, the flag is not
record_success_keeps_open(b) == [b EXCEPT !.failure_count = 0]

\* variant: the flag is cleared, the count is not
record_success_keeps_count(b) == [b EXCEPT !.is_open = FALSE]

\* CircuitBreaker.record_success
record_success(b) == [b EXCEPT !.failure_count = 0, !.is_open = FALSE]

\* variant: the threshold test is > instead of >=
record_failure_strict(b, t) ==
    LET b1 == [b EXCEPT !.failure_count = @ + 1, !.last_failure_time = t]
    IN  IF b1.failure_count > b1.failure_threshold
        THEN [b1 EXCEPT !.is_open = TRUE]
        ELSE b1

\* variant: the count is stored from a stale reading of 0 instead of being
\* incremented, as when the update of a concurrent call is lost
record_failure_overwrites(b, t) ==
    LET b1 == [b EXCEPT !.failure_count = 1, !.last_failure_time = t]
    IN  IF b1.failure_count >= b1.failure_threshold
        THEN [b1 EXCEPT !.is_open = TRUE]
        ELSE b1

\* variant: a failure recorded while the breaker is open does not move
\* last_failure_time
record_failure_keeps_window(b, t) ==
    LET b1 == [b EXCEPT !.failure_count = @ + 1,
                        !.last_failure_time = IF b.is_open THEN @ ELSE t]
    IN  IF b1.failure_count >= b1.failure_threshold
        THEN [b1 EXCEPT !.is_open = TRUE]
        ELSE b1

\* CircuitBreaker.record_failure; t is the reading of time.time()
record_failure(b, t) ==
    LET b1 == [b EXCEPT !.failure_count = @ + 1, !.last_failure_time = t]
    IN  IF b1.failure_count >= b1.failure_threshold
        THEN [b1 EXCEPT !.is_open = TRUE]
        ELSE b1

\* variant: the recovery test is >= instead of >
should_attempt_at_timeout(b, t) ==
    IF ~b.is_open THEN [ret |-> TRUE, cb |-> b]
    ELSE IF b.last_failure_time = None THEN [ret |-> TRUE, cb |-> b]
    ELSE IF t - b.last_failure_time >= b.recovery_timeout
         THEN [ret |-> TRUE,
               cb  |-> [b EXCEPT !.is_open = FALSE, !.failure_count = 0]]
         ELSE [ret |-> FALSE, cb |-> b]

\* variant: the final `return False` is `return True`
should_attempt_always(b, t) ==
    IF ~b.is_open THEN [ret |-> TRUE, cb |-> b]
    ELSE IF b.last_failure_time = None THEN [ret |-> TRUE, cb |-> b]
    ELSE IF t - b.last_failure_time > b.recovery_timeout
         THEN [ret |-> TRUE,
               cb  |-> [b EXCEPT !.is_open = FALSE, !.failure_count = 0]]
         ELSE [ret |-> TRUE, cb |-> b]

\* variant: the recovery branch does not reset failure_count
should_attempt_keeps_count(b, t) ==
    IF ~b.is_open THEN [ret |-> TRUE, cb |-> b]
    ELSE IF b.last_failure_time = None THEN [ret |-> TRUE, cb |-> b]
    ELSE IF t - b.last_failure_time > b.recovery_timeout
         THEN [ret |-> TRUE, cb |-> [b EXCEPT !.is_open = FALSE]]
         ELSE [ret |-> FALSE, cb |-> b]

\* CircuitBreaker.should_attempt: the value returned and the breaker after
should_attempt(b, t) ==
    IF ~b.is_open THEN [ret |-> TRUE, cb |-> b]
    ELSE IF b.last_failure_time = None THEN [ret |-> TRUE, cb |-> b]
    ELSE IF t - b.last_failure_time > b.recovery_timeout
         THEN [ret |-> TRUE,
               cb  |-> [b EXCEPT !.is_open = FALSE, !.failure_count = 0]]
         ELSE [ret |-> FALSE, cb |-> b]

\* variant: the result of should_attempt is not tested
call_async_enter_unguarded(b, t) ==
    LET sa == should_attempt(b, t)
    IN  [cb |-> sa.cb, admitted |-> sa.ret, invoked |-> 1, result |-> NoResult]

\* variant: a call rejected by the open breaker is recorded as a failure
call_async_enter_counts_rejection(b, t) ==
    LET sa == should_attempt(b, t)
    IN  IF ~sa.ret
        THEN [cb |-> record_failure(sa.cb, t), admitted |-> FALSE,
              invoked |-> 0,
              result |-> Raise("OllamaConnectionError", "breaker", 0)]
        ELSE [cb |-> sa.cb, admitted |-> TRUE, invoked |-> 1,
              result |-> NoResult]

\* call_async up to the await of the operation (lines 337-344): the
\* should_attempt test and the start of the operation are one step of the
\* event loop, nothing is awaited in between.
call_async_enter(b, t) ==
    LET sa == should_attempt(b, t)
    IN  IF ~sa.ret
        THEN [cb |-> sa.cb, admitted |-> FALSE, invoked |-> 0,
              result |-> Raise("OllamaConnectionError", "breaker", 0)]
        ELSE [cb |-> sa.cb, admitted |-> TRUE, invoked |-> 1,
              result |-> NoResult]

\* variant: the except clause re-raises without record_failure
call_async_finish_unrecorded(b, t, o) ==
    IF o.tag = "return"
    THEN [cb |-> record_success(b), recorded |-> <<"record_success">>,
          result |-> o]
    ELSE [cb |-> b, recorded |-> <<>>, result |-> o]

\* variant: the failure that opens the breaker is replaced by the
\* breaker's own connectivity error
call_async_finish_substitutes(b, t, o) ==
    IF o.tag = "return"
    THEN [cb |-> record_success(b), recorded |-> <<"record_success">>,
          result |-> o]
    ELSE IF IsException(o)
    THEN [cb |-> record_failure(b, t), recorded |-> <<"record_failure">>,
          result |-> IF record_failure(b, t).is_open
                     THEN Raise("OllamaConnectionError", "breaker", 0)
                     ELSE o]
    ELSE [cb |-> b, recorded |-> <<>>, result |-> o]

\* call_async from the completion of the awaited operation with outcome o
\* (lines 344-349); recorded lists the record_* calls it makes.
call_async_finish(b, t, o) ==
    IF o.tag = "return"
    THEN [cb |-> record_success(b), recorded |-> <<"record_success">>,
          result |-> o]
    ELSE IF IsException(o)
    THEN [cb |-> record_failure(b, t), recorded |-> <<"record_failure">>,
          result |-> o]
    ELSE [cb |-> b, recorded |-> <<>>, result |-> o]

\* ------------------------------------------------------- history variables
NoStreak == [fresh |-> TRUE, fails |-> 0, recovered |-> FALSE,
             overlapped |-> FALSE]
AfterFailure(s) == [s EXCEPT !.fails = @ + 1]
AfterSuccess(s) == [fresh |-> FALSE, fails |-> 0, recovered |-> FALSE,
                    overlapped |-> FALSE]
AfterRecovery(s) == [fresh |-> FALSE, fails |-> 0, recovered |-> TRUE,
                     overlapped |-> FALSE]
\* a failure recorded by a call that ran while another call was in flight
AfterOverlappedFailure(s) == [AfterFailure(s) EXCEPT !.overlapped = TRUE]

\* should_attempt took its recovery branch: it closed an open breaker
Recovered(b, sa) == b.is_open /\ ~sa.cb.is_open

Last(op, p, ret, o) ==
    [op |-> op, proc |-> p, ret |-> ret, outcome |-> o, pre |-> cb, at |-> now]

IdleCall == [pc |-> "idle", admitted |-> FALSE, invoked |-> 0,
             recorded |-> <<>>, outcome |-> NoResult, result |-> NoResult]

\* another task's operation is being awaited when task p's operation ends
Overlaps(p) == \E q \in Procs \ {p} : calls[q].pc = "inflight"

\* ------------------------------------------------------ breaker actions
\* a direct call of cb.record_success()
RecordSuccess ==
    /\ cb' = record_success(cb)
    /\ last' = Last("record_success", "caller", TRUE, NoResult)
    /\ streak' = AfterSuccess(streak)
    /\ UNCHANGED <<now, calls, retryVars>>

\* a direct call of cb.record_failure()
RecordFailure ==
    /\ cb.failure_count < MaxFailures
    /\ cb' = record_failure(cb, now)
    /\ last' = Last("record_failure", "caller", TRUE, NoResult)
    /\ streak' = AfterFailure(streak)
    /\ UNCHANGED <<now, calls, retryVars>>

\* a direct call of cb.should_attempt()
ShouldAttempt ==
    LET sa == should_attempt(cb, now)
    IN  /\ cb' = sa.cb
        /\ last' = Last("should_attempt", "caller", sa.ret, NoResult)
        /\ streak' = IF Recovered(cb, sa) THEN AfterRecovery(streak) ELSE streak
        /\ UNCHANGED <<now, calls, retryVars>>

\* task p calls cb.call_async(func) and runs to the await of func
CallEnter(p) ==
    /\ calls[p].pc \in {"idle", "done"}
    /\ LET e == call_async_enter(cb, now)
       IN  /\ cb' = e.cb
           /\ calls' = [calls EXCEPT ![p] =
                  [pc |-> IF e.invoked = 1 THEN "inflight" ELSE "done",
                   admitted |-> e.admitted,
                   invoked |-> e.invoked, recorded |-> <<>>,
                   outcome |-> NoResult, result |-> e.result]]
           /\ last' = Last("call_enter", p, e.admitted, NoResult)
           /\ streak' = IF Recovered(cb, e) THEN AfterRecovery(streak)
                        ELSE streak
    /\ UNCHANGED <<now, retryVars>>

\* the operation awaited by task p completes with outcome o
CallFinish(p, o) ==
    /\ calls[p].pc = "inflight"
    /\ LET f == call_async_finish(cb, now, o)
       IN  /\ "record_failure" \in {f.recorded[i] : i \in DOMAIN f.recorded}
                  => cb.failure_count < MaxFailures
           /\ cb' = f.cb
           /\ calls' = [calls EXCEPT ![p] =
                  [@ EXCEPT !.pc = "done", !.recorded = f.recorded,
                            !.outcome = o, !.result = f.result]]
           /\ last' = Last("call_finish", p, TRUE, o)
           /\ streak' = IF f.recorded = <<"record_success">>
                        THEN AfterSuccess(streak)
                        ELSE IF f.recorded = <<"record_failure">>
                        THEN IF Overlaps(p)
                             THEN AfterOverlappedFailure(streak)
                             ELSE AfterFailure(streak)
                        ELSE streak
    /\ UNCHANGED <<now, retryVars>>

\* time passes
Tick ==
    /\ now < MaxTime
    /\ now' = now + 1
    /\ UNCHANGED <<cb, calls, last, streak, retryVars>>

\* ------------------------------------------------------- retry executors
\* RetryConfig.__init__; delays are whole seconds, the base a whole number
RetryConfig(n, initial, max, base, jitter) ==
    [max_retries      |-> n,
     initial_delay    |-> initial,
     max_delay        |-> max,
     exponential_base |-> base,
     jitter           |-> jitter]

\* the defaults of RetryConfig.__init__ (lines 20-24)
DefaultConfig == RetryConfig(3, 1, 32, 2, TRUE)

\* A delay is counted in ticks of 1 / Unit second, so that the product of a
\* whole number of seconds and the factor 0.5 + k / RandDen is a whole number.
Unit == 2 * RandDen
Draws == 0..(RandDen - 1)

Min(a, b) == IF a <= b THEN a ELSE b

RECURSIVE Pow(_, _)
Pow(b, n) == IF n = 0 THEN 1 ELSE b * Pow(b, n - 1)

Delay(ticks) == [tag |-> "delay", ticks |-> ticks]
NoDelay == [tag |-> "none", ticks |-> 0]
OverflowError == [tag |-> "raise", ticks |-> 0]

\* variant: the jitter factor is random.random() alone
get_delay_unbiased_jitter(cfg, attempt, k) ==
    IF Pow(cfg.exponential_base, attempt) > FloatMax
    THEN OverflowError
    ELSE LET delay == Min(cfg.initial_delay
                              * Pow(cfg.exponential_base, attempt),
                          cfg.max_delay)
         IN  IF cfg.jitter
             THEN Delay(delay * (2 * k))
             ELSE Delay(delay * Unit)

\* RetryConfig.get_delay; k / RandDen is the value random.random() returns.
\* exponential_base ** attempt is a float power: it raises OverflowError
\* when the result is not a finite float.  The product with initial_delay
\* overflows to inf without raising, and min(inf, max_delay) is max_delay,
\* which is what Min gives for the exact product.
get_delay(cfg, attempt, k) ==
    IF Pow(cfg.exponential_base, attempt) > FloatMax
    THEN OverflowError
    ELSE LET delay == Min(cfg.initial_delay
                              * Pow(cfg.exponential_base, attempt),
                          cfg.max_delay)
         IN  IF cfg.jitter
             THEN Delay(delay * (RandDen + 2 * k))
             ELSE Delay(delay * Unit)

NoDelayCall == [called |-> FALSE, attempt |-> 0, draw |-> 0, result |-> NoDelay]

\* a call of config.get_delay(attempt) in which random.random() draws k
GetDelay(attempt, k) ==
    /\ dl' = [called |-> TRUE, attempt |-> attempt, draw |-> k,
              result |-> get_delay(config, attempt, k)]
    /\ UNCHANGED <<config, script, rs, draws, thread, ioVars, breakerVars>>

\* the operation's n-th invocation
Op(n) == IF n \in DOMAIN script THEN script[n] ELSE Raise("ValueError", "op", n)

RetryStart == [pc |-> "call", attempt |-> 0, last_exception |-> NoResult,
               invocations |-> 0, result |-> NoResult, delays |-> <<>>,
               args |-> CallArgs, forwarded |-> {}, overtaken |-> 0]

\* the random draw of the n-th get_delay of a retry invocation
Draw(n) == IF n \in DOMAIN draws THEN draws[n] ELSE 0

\* get_delay(attempt) called in the except clause (lines 97, 146): the sleep
\* it asks for, or the OverflowError that leaves the executor
RetryDelay(cfg, st2, attempt, k) ==
    LET d == get_delay(cfg, attempt, k)
    IN  IF d.tag = "raise"
        THEN [st2 EXCEPT !.pc = "done",
                         !.result = Raise("OverflowError", "get_delay", 0)]
        ELSE [st2 EXCEPT !.pc = "sleep",
                         !.delays = Append(@, [attempt |-> attempt,
                                               ticks |-> d.ticks])]

\* variant: the retry test is attempt + 1 < max_retries
retry_attempt_one_short(cfg, st, o, k) ==
    LET st1 == [st EXCEPT !.invocations = @ + 1,
                          !.forwarded = @ \cup {st.args}]
    IN  IF o.tag = "return"
        THEN [st1 EXCEPT !.pc = "done", !.result = o]
        ELSE IF ~IsException(o)
        THEN [st1 EXCEPT !.pc = "done", !.result = o]
        ELSE LET st2 == [st1 EXCEPT !.last_exception = o]
             IN  IF st.attempt + 1 < cfg.max_retries
                 THEN RetryDelay(cfg, st2, st.attempt, k)
                 ELSE [st2 EXCEPT !.pc = "done",
                                  !.result = st2.last_exception]

\* variant: last_exception keeps the first failure
retry_attempt_first_error(cfg, st, o, k) ==
    LET st1 == [st EXCEPT !.invocations = @ + 1,
                          !.forwarded = @ \cup {st.args}]
    IN  IF o.tag = "return"
        THEN [st1 EXCEPT !.pc = "done", !.result = o]
        ELSE IF ~IsException(o)
        THEN [st1 EXCEPT !.pc = "done", !.result = o]
        ELSE LET st2 == IF st1.last_exception = NoResult
                        THEN [st1 EXCEPT !.last_exception = o]
                        ELSE st1
             IN  IF st.attempt < cfg.max_retries
                 THEN RetryDelay(cfg, st2, st.attempt, k)
                 ELSE [st2 EXCEPT !.pc = "done",
                                  !.result = st2.last_exception]

\* variant: only a connectivity error is retried
retry_attempt_network_only(cfg, st, o, k) ==
    LET st1 == [st EXCEPT !.invocations = @ + 1,
                          !.forwarded = @ \cup {st.args}]
    IN  IF o.tag = "return"
        THEN [st1 EXCEPT !.pc = "done", !.result = o]
        ELSE IF ~(IsException(o) /\ o.val = "OllamaConnectionError")
        THEN [st1 EXCEPT !.pc = "done", !.result = o]
        ELSE LET st2 == [st1 EXCEPT !.last_exception = o]
             IN  IF st.attempt < cfg.max_retries
                 THEN RetryDelay(cfg, st2, st.attempt, k)
                 ELSE [st2 EXCEPT !.pc = "done",
                                  !.result = st2.last_exception]

\* variant: the executor also waits after the final failed attempt
retry_attempt_final_wait(cfg, st, o, k) ==
    LET st1 == [st EXCEPT !.invocations = @ + 1,
                          !.forwarded = @ \cup {st.args}]
    IN  IF o.tag = "return"
        THEN [st1 EXCEPT !.pc = "done", !.result = o]
        ELSE IF ~IsException(o)
        THEN [st1 EXCEPT !.pc = "done", !.result = o]
        ELSE LET st2 == [st1 EXCEPT !.last_exception = o]
             IN  IF st.attempt < cfg.max_retries
                 THEN RetryDelay(cfg, st2, st.attempt, k)
                 ELSE [RetryDelay(cfg, st2, st.attempt, k)
                          EXCEPT !.pc = "done",
                                 !.result = st2.last_exception]

\* One iteration of the for loop of retry_async up to its sleep (lines
\* 87-106), and the raise after the loop (108); o is what func does on this
\* invocation, k the draw of random.random() should get_delay be called.
retry_attempt(cfg, st, o, k) ==
    LET st1 == [st EXCEPT !.invocations = @ + 1,
                          !.forwarded = @ \cup {st.args}]
    IN  IF o.tag = "return"
        THEN [st1 EXCEPT !.pc = "done", !.result = o]
        ELSE IF ~IsException(o)
        THEN [st1 EXCEPT !.pc = "done", !.result = o]
        ELSE LET st2 == [st1 EXCEPT !.last_exception = o]
             IN  IF st.attempt < cfg.max_retries
                 THEN RetryDelay(cfg, st2, st.attempt, k)
                 ELSE [st2 EXCEPT !.pc = "done",
                                  !.result = st2.last_exception]

\* variant: retry_sync asks get_delay for the delay of the next attempt
retry_sync_attempt_next_delay(cfg, st, o, k) ==
    LET st1 == [st EXCEPT !.invocations = @ + 1,
                          !.forwarded = @ \cup {st.args}]
    IN  IF o.tag = "return"
        THEN [st1 EXCEPT !.pc = "done", !.result = o]
        ELSE IF ~IsException(o)
        THEN [st1 EXCEPT !.pc = "done", !.result = o]
        ELSE LET st2 == [st1 EXCEPT !.last_exception = o]
             IN  IF st.attempt < cfg.max_retries
                 THEN RetryDelay(cfg, st2, st.attempt + 1, k)
                 ELSE [st2 EXCEPT !.pc = "done",
                                  !.result = st2.last_exception]

\* One iteration of the for loop of retry_sync up to its sleep (lines
\* 136-155), and the raise after the loop (157).
retry_sync_attempt(cfg, st, o, k) ==
    LET st1 == [st EXCEPT !.invocations = @ + 1,
                          !.forwarded = @ \cup {st.args}]
    IN  IF o.tag = "return"
        THEN [st1 EXCEPT !.pc = "done", !.result = o]
        ELSE IF ~IsException(o)
        THEN [st1 EXCEPT !.pc = "done", !.result = o]
        ELSE LET st2 == [st1 EXCEPT !.last_exception = o]
             IN  IF st.attempt < cfg.max_retries
                 THEN RetryDelay(cfg, st2, st.attempt, k)
                 ELSE [st2 EXCEPT !.pc = "done",
                                  !.result = st2.last_exception]

\* variant: the sleep never returns
retry_wake_never(st) == st

\* the sleep ends and the loop goes to its next iteration
retry_wake(st) == [st EXCEPT !.pc = "call", !.attempt = @ + 1]

\* variant: retry_async waits with time.sleep as well
wait_primitive_blocking(v) == "time.sleep"

\* how the executor v waits between attempts (lines 102, 151); every
\* invocation other than retry_sync is a retry_async
wait_primitive(v) == IF v = "retry_sync" THEN "time.sleep" ELSE "asyncio.sleep"

\* time.sleep keeps the calling thread, await asyncio.sleep gives it back to
\* the event loop
Blocks(primitive) == primitive = "time.sleep"

\* retry_async invocations are tasks of one event loop; a retry_sync
\* invocation runs on a thread of its own
OnLoop(v) == v # "retry_sync"

\* w is in its backoff wait while v makes an attempt
Overtakes(v, w) == w # v /\ rs[w].pc = "sleep"

\* one attempt of the invocation v: func is invoked and the loop body runs
\* to the return, the raise or the sleep
RetryAttempt(v) ==
    /\ rs[v].pc = "call"
    /\ OnLoop(v) => thread = "free"
    /\ LET o == Op(rs[v].invocations + 1)
           k == Draw(rs[v].attempt + 1)
           new == IF v = "retry_sync"
                  THEN retry_sync_attempt(config, rs[v], o, k)
                  ELSE retry_attempt(config, rs[v], o, k)
       IN  /\ rs' = [w \in DOMAIN rs |->
                        IF w = v THEN new
                        ELSE IF Overtakes(v, w)
                        THEN [rs[w] EXCEPT !.overtaken = @ + 1]
                        ELSE rs[w]]
           /\ thread' = IF OnLoop(v) /\ new.pc = "sleep"
                            /\ Blocks(wait_primitive(v))
                         THEN v ELSE thread
    /\ UNCHANGED <<config, script, dl, draws, ioVars, breakerVars>>

\* the wait of the invocation v ends
RetryWake(v) ==
    /\ rs[v].pc = "sleep"
    /\ OnLoop(v) => thread \in {"free", v}
    /\ rs' = [rs EXCEPT ![v] = [retry_wake(rs[v]) EXCEPT !.overtaken = 0]]
    /\ thread' = IF OnLoop(v) THEN "free" ELSE thread
    /\ UNCHANGED <<config, script, dl, draws, ioVars, breakerVars>>

\* ------------------------------------------------- connection validator
\* the exception classes the probe can raise, each with its base classes up
\* to BaseException (httpx's hierarchy and the builtins')
Bases(c) ==
    CASE c = "ConnectError" ->
            {"ConnectError", "NetworkError", "TransportError", "RequestError",
             "HTTPError", "Exception", "BaseException"}
      [] c = "ConnectTimeout" ->
            {"ConnectTimeout", "TimeoutException", "TransportError",
             "RequestError", "HTTPError", "Exception", "BaseException"}
      [] c = "ReadTimeout" ->
            {"ReadTimeout", "TimeoutException", "TransportError",
             "RequestError", "HTTPError", "Exception", "BaseException"}
      [] c = "ReadError" ->
            {"ReadError", "NetworkError", "TransportError", "RequestError",
             "HTTPError", "Exception", "BaseException"}
      [] c = "HTTPStatusError" ->
            {"HTTPStatusError", "HTTPError", "Exception", "BaseException"}
      [] c = "InvalidURL" -> {"InvalidURL", "Exception", "BaseException"}
      [] c = "ValueError" -> {"ValueError", "Exception", "BaseException"}
      [] c = "CancelledError" -> {"CancelledError", "BaseException"}
      [] c = "JSONDecodeError" ->
            {"JSONDecodeError", "ValueError", "Exception", "BaseException"}
      [] c = "AttributeError" -> {"AttributeError", "Exception", "BaseException"}
      [] c = "TypeError" -> {"TypeError", "Exception", "BaseException"}
      [] c = "KeyError" ->
            {"KeyError", "LookupError", "Exception", "BaseException"}
      [] c = "PermissionError" ->
            {"PermissionError", "OSError", "Exception", "BaseException"}
      [] c = "OllamaConnectionError" ->
            {"OllamaConnectionError", "DockerfileAIException", "Exception",
             "BaseException"}
      [] c = "OllamaResponseError" ->
            {"OllamaResponseError", "OllamaError", "DockerfileAIException",
             "Exception", "BaseException"}
      [] c = "OutputError" ->
            {"OutputError", "DockerfileAIException", "Exception",
             "BaseException"}

\* what client.get(url, timeout=timeout) can raise
ProbeErrors ==
    {"ConnectError", "ConnectTimeout", "ReadTimeout", "ReadError",
     "InvalidURL", "ValueError", "CancelledError"}

\* the response statuses the listing endpoint can answer with
Statuses == {200, 301, 404, 500}

\* the arguments of validate_ollama_connection
Hosts == {"localhost", "127.0.0.1"}
Ports == {11434, 8080}
Timeouts == {5, 1}

\* except <cls> catches an exception of class c
Catches(cls, c) == cls \in Bases(c)

\* response.raise_for_status(): "none" when it returns. A 4xx or 5xx status
\* raises HTTPStatusError in every httpx; a 3xx status raises it or not
\* depending on the installed httpx.
raise_for_status(status) ==
    IF status >= 400 THEN {"HTTPStatusError"}
    ELSE IF status >= 300 THEN {"none", "HTTPStatusError"}
    ELSE {"none"}

\* what the try block raises for a probe ("none": it reaches return True)
ProbeRaises(probe) ==
    IF probe.kind = "raise" THEN {probe.class}
    ELSE raise_for_status(probe.status)

Probes ==
    {[kind |-> "raise", class |-> c, status |-> 0] : c \in ProbeErrors}
        \cup {[kind |-> "response", class |-> "none", status |-> st] :
                  st \in Statuses}

Url(host, port) == <<"http://", host, ":", port, "/api/tags">>

Returned(v) == [tag |-> "return", val |-> v, class |-> "none", message |-> <<>>]
Raised(c, msg) == [tag |-> "raise", val |-> FALSE, class |-> c, message |-> msg]

\* variant: an HTTP-layer error other than refusal and timeout is re-raised
\* as it is
validate_ollama_connection_reraises(host, port, timeout, raised) ==
    IF raised = "none" THEN Returned(TRUE)
    ELSE IF Catches("ConnectError", raised)
    THEN Raised("OllamaConnectionError",
                <<"Cannot connect to Ollama at", host, port,
                  "Is Ollama running? Error:", raised>>)
    ELSE IF Catches("TimeoutException", raised)
    THEN Raised("OllamaConnectionError",
                <<"Connection to Ollama at", host, port, "timed out. Error:",
                  raised>>)
    ELSE IF Catches("HTTPError", raised)
    THEN Raised(raised, <<raised>>)
    ELSE IF Catches("Exception", raised)
    THEN Raised("OllamaConnectionError",
                <<"Unexpected error validating Ollama connection:", raised>>)
    ELSE Raised(raised, <<raised>>)

\* variant: the except clause for httpx.HTTPError is tried first
validate_ollama_connection_general_first(host, port, timeout, raised) ==
    IF raised = "none" THEN Returned(TRUE)
    ELSE IF Catches("HTTPError", raised)
    THEN Raised("OllamaConnectionError",
                <<"HTTP error connecting to Ollama:", raised>>)
    ELSE IF Catches("ConnectError", raised)
    THEN Raised("OllamaConnectionError",
                <<"Cannot connect to Ollama at", host, port,
                  "Is Ollama running? Error:", raised>>)
    ELSE IF Catches("TimeoutException", raised)
    THEN Raised("OllamaConnectionError",
                <<"Connection to Ollama at", host, port, "timed out. Error:",
                  raised>>)
    ELSE IF Catches("Exception", raised)
    THEN Raised("OllamaConnectionError",
                <<"Unexpected error validating Ollama connection:", raised>>)
    ELSE Raised(raised, <<raised>>)

\* validate_ollama_connection (lines 160-202) when its try block raises
\* `raised` ("none": the probe answered and raise_for_status returned); the
\* except clauses are tried in the order of the source.
validate_ollama_connection(host, port, timeout, raised) ==
    IF raised = "none" THEN Returned(TRUE)
    ELSE IF Catches("ConnectError", raised)
    THEN Raised("OllamaConnectionError",
                <<"Cannot connect to Ollama at", host, port,
                  "Is Ollama running? Error:", raised>>)
    ELSE IF Catches("TimeoutException", raised)
    THEN Raised("OllamaConnectionError",
                <<"Connection to Ollama at", host, port, "timed out. Error:",
                  raised>>)
    ELSE IF Catches("HTTPError", raised)
    THEN Raised("OllamaConnectionError",
                <<"HTTP error connecting to Ollama:", raised>>)
    ELSE IF Catches("Exception", raised)
    THEN Raised("OllamaConnectionError",
                <<"Unexpected error validating Ollama connection:", raised>>)
    ELSE Raised(raised, <<raised>>)

NoValidation ==
    [called |-> FALSE, host |-> "localhost", port |-> 11434, timeout |-> 5,
     url |-> <<>>, probe |-> [kind |-> "none", class |-> "none", status |-> 0],
     raised |-> "none", result |-> Returned(FALSE)]

\* a call of validate_ollama_connection(host, port, timeout) whose probe
\* goes as `probe` says
Validate ==
    /\ ~vc.called
    /\ \E raised \in ProbeRaises(vc.probe) :
           vc' = [vc EXCEPT !.called = TRUE,
                            !.url = Url(vc.host, vc.port),
                            !.raised = raised,
                            !.result = validate_ollama_connection(
                                           vc.host, vc.port, vc.timeout, raised)]
    /\ UNCHANGED <<resilienceVars, mc, qo, ex, tool>>

\* ------------------------------------------------------ model validator
\* the characters model names are made of
Alphabet == {"a", "b"}

\* Python values of the decoded listing: val holds the characters of a str,
\* items the items of a list and, for a dict, the value of its key "name"
\* when it has that key
Str(chars) == [type |-> "str", val |-> chars, items |-> <<>>]
List(items) == [type |-> "list", val |-> <<>>, items |-> items]
PyNone == [type |-> "NoneType", val |-> <<>>, items |-> <<>>]

\* the strings of at most n characters
Strings(n) == UNION {[1..k -> Alphabet] : k \in 0..n}

\* a dict of the listing: a model descriptor, with or without the key "name"
Dict(has_name, name) ==
    [type |-> "dict", val |-> <<>>,
     items |-> IF has_name THEN <<name>> ELSE <<>>]
NoName == Dict(FALSE, PyNone)
HasName(d) == d.items # <<>>

\* the values the key "name" of a descriptor can have in a JSON body: a
\* string, null, a list of strings
NameValues ==
    {Str(n) : n \in Strings(MaxNameLen)}
        \cup {PyNone} \cup {List(<<Str(<<c>>)>>) : c \in Alphabet}

\* the items the list "models" can hold: descriptors, and a bare string
ModelEntries ==
    {Dict(TRUE, v) : v \in NameValues} \cup {NoName} \cup {Str(<<"a">>)}

\* the values of the key "models": a list of entries, null, an empty object
ModelsValues ==
    {List(l) : l \in UNION {[1..k -> ModelEntries] : k \in 0..MaxModels}}
        \cup {PyNone, NoName}

\* the bodies the listing endpoint can answer with: text that is not JSON, a
\* JSON array, a JSON object with or without the key "models"
Bodies ==
    {[kind |-> "text", has_models |-> FALSE, models |-> PyNone],
     [kind |-> "array", has_models |-> FALSE, models |-> PyNone],
     [kind |-> "object", has_models |-> FALSE, models |-> PyNone]}
        \cup {[kind |-> "object", has_models |-> TRUE, models |-> m] :
                  m \in ModelsValues}

Ok(v) == [tag |-> "ok", val |-> v, class |-> "none"]
Throws(c) == [tag |-> "raise", val |-> FALSE, class |-> c]

\* variant: the requested name must be a prefix of the registered name
str_contains_prefix(x, y) ==
    /\ Len(x) <= Len(y)
    /\ \A k \in 1..Len(x) : y[k] = x[k]

\* `x in y` for two str (line 232): x occurs in y at some offset
str_contains(x, y) ==
    \E i \in 0..(Len(y) - Len(x)) : \A k \in 1..Len(x) : y[i + k] = x[k]

\* `model in m` (line 232) by the type of m: substring test on a str,
\* membership in a list, key test on a dict, TypeError otherwise
In(model, m) ==
    CASE m.type = "str" -> Ok(str_contains(model, m.val))
      [] m.type = "list" ->
            Ok(\E i \in DOMAIN m.items : m.items[i] = Str(model))
      [] m.type = "dict" ->
            Ok(HasName(m) /\ model = <<"n", "a", "m", "e">>)
      [] OTHER -> Throws("TypeError")

\* iterating a value (the for of line 231): the items of a list, the keys
\* of a dict, the characters of a str; TypeError otherwise
Iterate(v) ==
    CASE v.type = "list" -> Ok(v.items)
      [] v.type = "dict" ->
            Ok(IF HasName(v) THEN <<Str(<<"n", "a", "m", "e">>)>> ELSE <<>>)
      [] v.type = "str" -> Ok([i \in DOMAIN v.val |-> Str(<<v.val[i]>>)])
      [] OTHER -> Throws("TypeError")

\* [m.get("name", "") for m in items] (line 231)
RECURSIVE Names(_)
Names(items) ==
    IF items = <<>> THEN Ok(<<>>)
    ELSE IF Head(items).type # "dict" THEN Throws("AttributeError")
    ELSE LET rest == Names(Tail(items))
             name == IF HasName(Head(items)) THEN Head(items).items[1]
                     ELSE Str(<<>>)
         IN  IF rest.tag = "raise" THEN rest
             ELSE Ok(<<name>> \o rest.val)

\* any(model in m for m in models) (line 232): left to right, stopping at
\* the first true
RECURSIVE any(_, _)
any(model, names) ==
    IF names = <<>> THEN Ok(FALSE)
    ELSE LET c == In(model, Head(names))
         IN  IF c.tag = "raise" THEN c
             ELSE IF c.val THEN Ok(TRUE)
             ELSE any(model, Tail(names))

\* the try block of check_model_available after the request (lines 230-244)
Available(model, body) ==
    IF body.kind = "text" THEN Throws("JSONDecodeError")
    ELSE IF body.kind # "object" THEN Throws("AttributeError")
    ELSE LET it == Iterate(IF body.has_models THEN body.models ELSE List(<<>>))
         IN  IF it.tag = "raise" THEN it
             ELSE LET names == Names(it.val)
                  IN  IF names.tag = "raise" THEN names
                      ELSE any(model, names.val)

\* the except clauses of check_model_available (lines 245-252) on what the
\* try block did
ModelCheckResult(t) ==
    IF t.tag = "ok" THEN Returned(t.val)
    ELSE IF Catches("HTTPError", t.class)
    THEN Raised("OllamaConnectionError",
                <<"Error checking model availability:", t.class>>)
    ELSE IF Catches("Exception", t.class)
    THEN Raised("OllamaConnectionError",
                <<"Unexpected error checking model:", t.class>>)
    ELSE Raised(t.class, <<t.class>>)

\* variant: a failed request is answered with False
check_model_available_swallows(model, host, port, timeout, raised, body) ==
    IF raised # "none" /\ Catches("HTTPError", raised) THEN Returned(FALSE)
    ELSE ModelCheckResult(IF raised # "none" THEN Throws(raised)
                          ELSE Available(model, body))

\* check_model_available (lines 205-252): `raised` is what the request and
\* raise_for_status raise ("none": they return), body what the server sent
check_model_available(model, host, port, timeout, raised, body) ==
    ModelCheckResult(IF raised # "none" THEN Throws(raised)
                     ELSE Available(model, body))

NoModelCheck ==
    [called |-> FALSE, model |-> <<>>, host |-> "localhost", port |-> 11434,
     timeout |-> 5, probe |-> [kind |-> "none", class |-> "none", status |-> 0],
     body |-> [kind |-> "text", has_models |-> FALSE, models |-> PyNone],
     raised |-> "none", result |-> Returned(FALSE)]

\* no call of a validator has been made
IdleValidators == vc = NoValidation /\ mc = NoModelCheck

\* a call of check_model_available(model) whose request goes as mc.probe says
CheckModel ==
    /\ ~mc.called
    /\ \E raised \in ProbeRaises(mc.probe) :
           mc' = [mc EXCEPT !.called = TRUE,
                            !.raised = raised,
                            !.result = check_model_available(
                                           mc.model, mc.host, mc.port,
                                           mc.timeout, raised, mc.body)]
    /\ UNCHANGED <<resilienceVars, vc, qo, ex, tool>>

\* --------------------------------------------------- streaming decoder
\* The lines of a response body: a JSON object with response and done, a
\* line that does not parse, a blank line.
Fragment(text, done) == [kind |-> "fragment", text |-> text, done |-> done]
Malformed == [kind |-> "malformed", text |-> <<>>, done |-> FALSE]
Blank == [kind |-> "blank", text |-> <<>>, done |-> FALSE]

Lines ==
    {Malformed, Blank}
        \cup {Fragment(t, d) : t \in Strings(MaxTextLen), d \in BOOLEAN}

ResponseBodies == UNION {[1..k -> Lines] : k \in 0..MaxLines}

Analysis(text) == [tag |-> "return", text |-> text, class |-> "none"]
DecodeError(c) == [tag |-> "raise", text |-> <<>>, class |-> c]
NoAnalysis == [tag |-> "none", text |-> <<>>, class |-> "none"]

\* the accumulator before the first line
DecodeStart(body) ==
    [pc |-> "lines", body |-> body, pos |-> 0, text |-> <<>>,
     done |-> FALSE, parsed |-> 0, result |-> NoAnalysis]
NoDecode == [DecodeStart(<<>>) EXCEPT !.pc = "idle"]

\* variant: text keeps being accumulated after the final fragment
decode_line_past_final(st, line) ==
    LET st1 == [st EXCEPT !.pos = @ + 1]
    IN  IF line.kind # "fragment" THEN st1
        ELSE [st1 EXCEPT !.parsed = @ + 1,
                         !.text = @ \o line.text,
                         !.done = @ \/ line.done]

\* variant: a line that does not parse ends the decode with nothing
decode_line_aborts(st, line) ==
    LET st1 == [st EXCEPT !.pos = @ + 1]
    IN  IF line.kind = "malformed"
        THEN [st1 EXCEPT !.text = <<>>, !.parsed = 0, !.done = TRUE]
        ELSE IF line.kind # "fragment" THEN st1
        ELSE [st1 EXCEPT !.parsed = @ + 1,
                         !.text = IF st.done THEN @ ELSE @ \o line.text,
                         !.done = @ \/ line.done]

\* the decoder takes one line: a line that does not parse is passed over; a
\* fragment is parsed, and its text is appended unless a final fragment has
\* been seen
decode_line(st, line) ==
    LET st1 == [st EXCEPT !.pos = @ + 1]
    IN  IF line.kind # "fragment" THEN st1
        ELSE [st1 EXCEPT !.parsed = @ + 1,
                         !.text = IF st.done THEN @ ELSE @ \o line.text,
                         !.done = @ \/ line.done]

\* variant: whatever was accumulated is returned
decode_end_returns_empty(st) == Analysis(st.text)

\* after the last line: no parsed line, or no text, is a response-validity
\* error; otherwise the accumulated text is the analysis
decode_end(st) ==
    IF st.parsed = 0 \/ st.text = <<>>
    THEN DecodeError("OllamaResponseError")
    ELSE Analysis(st.text)

\* no call of the decoder has been made
IdleDecoder == qo = NoDecode

DecodeLine ==
    /\ qo.pc = "lines"
    /\ qo.pos < Len(qo.body)
    /\ qo' = decode_line(qo, qo.body[qo.pos + 1])
    /\ UNCHANGED <<resilienceVars, vc, mc, ex, tool>>

DecodeEnd ==
    /\ qo.pc = "lines"
    /\ qo.pos = Len(qo.body)
    /\ qo' = [qo EXCEPT !.pc = "done", !.result = decode_end(qo)]
    /\ UNCHANGED <<resilienceVars, vc, mc, ex, tool>>

\* ----------------------------------------------- Dockerfile block extractor
\* The lines of an analysis text: a bare triple-backtick fence, a fence with
\* the label dockerfile, a blank line, a line that begins with FROM, any
\* other line.
LineKinds == {"fence", "fence_dockerfile", "blank", "from", "other"}

Texts == UNION {[1..k -> LineKinds] : k \in 0..MaxTextLines}

IsFence(line) == line \in {"fence", "fence_dockerfile"}

Absent == [tag |-> "absent", lines |-> <<>>]
Block(lines) == [tag |-> "block", lines |-> lines]
NoExtraction == [tag |-> "none", lines |-> <<>>]

\* leading blank lines removed
RECURSIVE TrimLeft(_)
TrimLeft(lines) ==
    IF lines = <<>> THEN <<>>
    ELSE IF Head(lines) = "blank" THEN TrimLeft(Tail(lines))
    ELSE lines

\* trailing blank lines removed
RECURSIVE TrimRight(_)
TrimRight(lines) ==
    IF lines = <<>> THEN <<>>
    ELSE IF lines[Len(lines)] = "blank"
    THEN TrimRight(SubSeq(lines, 1, Len(lines) - 1))
    ELSE lines

Trim(lines) == TrimRight(TrimLeft(lines))

\* the scan before the first line
ExtractStart(text) ==
    [pc |-> "seek", text |-> text, pos |-> 0, block |-> <<>>,
     result |-> NoExtraction]
NoExtract == [ExtractStart(<<>>) EXCEPT !.pc = "idle"]

\* variant: only a fence labelled dockerfile opens a block
extract_line_labelled_only(st, line) ==
    LET st1 == [st EXCEPT !.pos = @ + 1]
    IN  IF st.pc = "seek"
        THEN IF line = "fence_dockerfile" THEN [st1 EXCEPT !.pc = "inside"]
             ELSE st1
        ELSE IF IsFence(line) THEN [st1 EXCEPT !.pc = "closed"]
        ELSE [st1 EXCEPT !.block = Append(@, line)]

\* the scan takes one line: outside a block a fence, labelled or not, opens
\* the first block; inside it the next fence closes it and every other line
\* is its content
extract_line(st, line) ==
    LET st1 == [st EXCEPT !.pos = @ + 1]
    IN  IF st.pc = "seek"
        THEN IF IsFence(line) THEN [st1 EXCEPT !.pc = "inside"] ELSE st1
        ELSE IF IsFence(line) THEN [st1 EXCEPT !.pc = "closed"]
        ELSE [st1 EXCEPT !.block = Append(@, line)]

\* variant: the block is returned whatever its first line
extract_end_any_block(st) ==
    IF st.pc # "closed" THEN Absent
    ELSE IF Trim(st.block) = <<>> THEN Absent
    ELSE Block(Trim(st.block))

\* the end of the scan: no closed block is absent; the block is trimmed of
\* leading and trailing blank lines and is absent unless its first line
\* begins with FROM
extract_end(st) ==
    IF st.pc # "closed" THEN Absent
    ELSE LET trimmed == Trim(st.block)
         IN  IF trimmed = <<>> THEN Absent
             ELSE IF Head(trimmed) # "from" THEN Absent
             ELSE Block(trimmed)

\* no call of the extractor has been made
IdleExtractor == ex = NoExtract

ExtractLine ==
    /\ ex.pc \in {"seek", "inside"}
    /\ ex.pos < Len(ex.text)
    /\ ex' = extract_line(ex, ex.text[ex.pos + 1])
    /\ UNCHANGED <<resilienceVars, vc, mc, qo, tool>>

ExtractEnd ==
    /\ \/ ex.pc = "closed"
       \/ ex.pc \in {"seek", "inside"} /\ ex.pos = Len(ex.text)
    /\ ex' = [ex EXCEPT !.pc = "done", !.result = extract_end(ex)]
    /\ UNCHANGED <<resilienceVars, vc, mc, qo, tool>>

\* ------------------------------------------------ analyze_dockerfile tool
\* the arguments of a tool call: dockerfile_path present or not, save_results
\* true, false or not given
ToolArguments ==
    [has_path : BOOLEAN, save_results : {"absent", "true", "false"}]

\* what the tool call meets: whether the file exists, and what each
\* collaborator does when it is called
ToolEnvs ==
    [exists : BOOLEAN,
     read : {"ok", "PermissionError"},
     query : {"ok", "OllamaConnectionError", "OllamaResponseError",
              "CancelledError"},
     corrected : {"block", "absent"},
     save_analysis : {"ok", "OutputError"},
     save_dockerfile : {"ok", "OutputError"}]

NoResponse == [tag |-> "none", kind |-> "none", status |-> "none",
               error |-> "none", saved_files |-> <<>>]
\* the "Error: Dockerfile not found at ..." text (lines 129-134)
NotFoundResponse ==
    [tag |-> "response", kind |-> "text", status |-> "error",
     error |-> "not found", saved_files |-> <<>>]
\* the JSON {"status": "error", "error": str(e)} (lines 178-188)
ErrorResponse(c) ==
    [tag |-> "response", kind |-> "json", status |-> "error",
     error |-> c, saved_files |-> <<>>]
\* the JSON {"status": "success", ...} (lines 160-176)
SuccessResponse(saved) ==
    [tag |-> "response", kind |-> "json", status |-> "success",
     error |-> "none", saved_files |-> saved]
\* an exception that leaves analyze_dockerfile_tool
Propagated(c) ==
    [tag |-> "raise", kind |-> "none", status |-> "none",
     error |-> c, saved_files |-> <<>>]

ToolStart(args, env) ==
    [pc |-> "arguments", args |-> args, env |-> env, steps |-> <<>>,
     written |-> <<>>, result |-> NoResponse]
NoToolCall ==
    [ToolStart([has_path |-> TRUE, save_results |-> "absent"],
               [exists |-> TRUE, read |-> "ok", query |-> "ok",
                corrected |-> "absent", save_analysis |-> "ok",
                save_dockerfile |-> "ok"])
        EXCEPT !.pc = "idle"]

\* arguments.get("save_results", True) (line 125)
SaveResults(args) == args.save_results # "false"

\* the try of lines 136-188 when the statement at its position raises c:
\* `except Exception` answers with the error JSON, anything else leaves
Handled(st, c) ==
    IF Catches("Exception", c)
    THEN [st EXCEPT !.pc = "done", !.result = ErrorResponse(c)]
    ELSE [st EXCEPT !.pc = "done", !.result = Propagated(c)]

\* variant: the artifacts are saved whatever save_results says
tool_step_saves_always(st) ==
    LET st1 == [st EXCEPT !.steps = Append(@, st.pc)]
    IN  CASE st.pc = "arguments" ->
                IF st.args.has_path THEN [st1 EXCEPT !.pc = "exists"]
                ELSE [st1 EXCEPT !.pc = "done",
                                 !.result = Propagated("KeyError")]
          [] st.pc = "exists" ->
                IF st.env.exists THEN [st1 EXCEPT !.pc = "read"]
                ELSE [st1 EXCEPT !.pc = "done", !.result = NotFoundResponse]
          [] st.pc = "read" ->
                IF st.env.read = "ok" THEN [st1 EXCEPT !.pc = "query"]
                ELSE Handled(st1, st.env.read)
          [] st.pc = "query" ->
                IF st.env.query = "ok" THEN [st1 EXCEPT !.pc = "extract"]
                ELSE Handled(st1, st.env.query)
          [] st.pc = "extract" -> [st1 EXCEPT !.pc = "save_analysis"]
          [] st.pc = "save_analysis" ->
                IF st.env.save_analysis = "ok"
                THEN [st1 EXCEPT !.written = Append(@, "analysis"),
                                 !.pc = IF st.env.corrected = "block"
                                        THEN "save_dockerfile" ELSE "respond"]
                ELSE Handled(st1, st.env.save_analysis)
          [] st.pc = "save_dockerfile" ->
                IF st.env.save_dockerfile = "ok"
                THEN [st1 EXCEPT !.written = Append(@, "corrected_dockerfile"),
                                 !.pc = "respond"]
                ELSE Handled(st1, st.env.save_dockerfile)
          [] st.pc = "respond" ->
                [st1 EXCEPT !.pc = "done",
                            !.result = SuccessResponse(st.written)]

\* analyze_dockerfile_tool (lines 121-188), one statement at a time
tool_step(st) ==
    LET st1 == [st EXCEPT !.steps = Append(@, st.pc)]
    IN  CASE st.pc = "arguments" ->
                IF st.args.has_path THEN [st1 EXCEPT !.pc = "exists"]
                ELSE [st1 EXCEPT !.pc = "done",
                                 !.result = Propagated("KeyError")]
          [] st.pc = "exists" ->
                IF st.env.exists THEN [st1 EXCEPT !.pc = "read"]
                ELSE [st1 EXCEPT !.pc = "done", !.result = NotFoundResponse]
          [] st.pc = "read" ->
                IF st.env.read = "ok" THEN [st1 EXCEPT !.pc = "query"]
                ELSE Handled(st1, st.env.read)
          [] st.pc = "query" ->
                IF st.env.query = "ok" THEN [st1 EXCEPT !.pc = "extract"]
                ELSE Handled(st1, st.env.query)
          [] st.pc = "extract" ->
                [st1 EXCEPT !.pc = IF SaveResults(st.args)
                                   THEN "save_analysis" ELSE "respond"]
          [] st.pc = "save_analysis" ->
                IF st.env.save_analysis = "ok"
                THEN [st1 EXCEPT !.written = Append(@, "analysis"),
                                 !.pc = IF st.env.corrected = "block"
                                        THEN "save_dockerfile" ELSE "respond"]
                ELSE Handled(st1, st.env.save_analysis)
          [] st.pc = "save_dockerfile" ->
                IF st.env.save_dockerfile = "ok"
                THEN [st1 EXCEPT !.written = Append(@, "corrected_dockerfile"),
                                 !.pc = "respond"]
                ELSE Handled(st1, st.env.save_dockerfile)
          [] st.pc = "respond" ->
                [st1 EXCEPT !.pc = "done",
                            !.result = SuccessResponse(st.written)]

\* no validator, decoder, extractor or tool call has been made
IdleIO == IdleValidators /\ IdleDecoder /\ IdleExtractor /\ tool = NoToolCall

ToolStep ==
    /\ tool.pc \notin {"idle", "done"}
    /\ tool' = tool_step(tool)
    /\ UNCHANGED <<resilienceVars, vc, mc, qo, ex>>

\* cb.call_async(func) from entry to exit (lines 337-349) when the awaited
\* operation does o: what it leaves in the breaker and what it hands back
call_async(b, t, o) ==
    LET e == call_async_enter(b, t)
        f == call_async_finish(e.cb, t, o)
    IN  IF e.invoked = 1
        THEN [cb |-> f.cb, admitted |-> TRUE, recorded |-> f.recorded,
              result |-> f.result]
        ELSE [cb |-> e.cb, admitted |-> FALSE, recorded |-> <<>>,
              result |-> e.result]

\* One attempt of retry_async(lambda: cb.call_async(op)), the composition
\* Retry Executor(Circuit Breaker(operation)): the function retried is the
\* breaker's call_async around the operation.
ComposedAttempt(v) ==
    /\ rs[v].pc = "call"
    /\ thread = "free"
    /\ LET c == call_async(cb, now, Op(rs[v].invocations + 1))
           s == IF Recovered(cb, call_async_enter(cb, now))
                THEN AfterRecovery(streak) ELSE streak
       IN  /\ "record_failure" \in {c.recorded[i] : i \in DOMAIN c.recorded}
                  => cb.failure_count < MaxFailures
           /\ cb' = c.cb
           /\ rs' = [rs EXCEPT ![v] =
                  retry_attempt(config, rs[v], c.result, Draw(rs[v].attempt + 1))]
           /\ last' = Last("call_async", v, c.admitted, c.result)
           /\ streak' = IF c.recorded = <<"record_success">>
                        THEN AfterSuccess(s)
                        ELSE IF c.recorded = <<"record_failure">>
                        THEN AfterFailure(s)
                        ELSE s
    /\ UNCHANGED <<now, calls, config, script, dl, draws, thread, ioVars>>

\* ------------------------------------------------------- specifications
Scripts(len) ==
    {s \in [1..len -> OpOutcomes(0)] : TRUE}

Tagged(s) == [n \in DOMAIN s |-> [s[n] EXCEPT !.at = n]]

InitBreaker ==
    /\ \E th \in 1..MaxThreshold, to \in 0..MaxTimeout :
           cb = CircuitBreaker(th, to)
    /\ now = 0
    /\ calls = [p \in Procs |-> IdleCall]
    /\ last = [op |-> "none", proc |-> "none", ret |-> TRUE,
               outcome |-> NoResult, pre |-> cb, at |-> 0]
    /\ streak = NoStreak

\* the draws of a retry invocation: none is used without jitter; with
\* jitter each is the smallest or the largest value random.random() returns
DrawSeqs(n, jitter) ==
    IF jitter THEN [1..n -> {0, RandDen - 1}] ELSE {[i \in 1..n |-> 0]}

InitRetry ==
    /\ \E n \in 0..MaxRetries, j \in BOOLEAN :
           /\ config = RetryConfig(n, 1, 2, 2, j)
           /\ \E s \in Scripts(n + 1) : script = Tagged(s)
           /\ draws \in DrawSeqs(n, j)
    /\ rs = [v \in Variants |-> RetryStart]
    /\ dl = NoDelayCall
    /\ thread = "free"
    /\ IdleIO

Init ==
    /\ InitBreaker
    /\ config = DefaultConfig
    /\ script = <<>>
    /\ rs = [v \in Variants |-> RetryStart]
    /\ dl = NoDelayCall
    /\ draws = <<>>
    /\ thread = "free"
    /\ IdleIO

Next ==
    \/ RecordSuccess
    \/ RecordFailure
    \/ ShouldAttempt
    \/ \E p \in Procs : CallEnter(p)
    \/ \E p \in Procs : \E o \in OpOutcomes(0) : CallFinish(p, o)
    \/ Tick

Spec == Init /\ [][Next]_vars

InitR ==
    /\ InitRetry
    /\ cb = CircuitBreaker(1, 0)
    /\ now = 0
    /\ calls = [p \in Procs |-> IdleCall]
    /\ last = [op |-> "none", proc |-> "none", ret |-> TRUE,
               outcome |-> NoResult, pre |-> cb, at |-> 0]
    /\ streak = NoStreak

NextR ==
    \/ \E v \in DOMAIN rs : RetryAttempt(v)
    \/ \E v \in DOMAIN rs : RetryWake(v)

SpecRetry == InitR /\ [][NextR]_vars

\* two requests served by retry_async on one event loop
Tasks == {"task1", "task2"}

InitLoop ==
    /\ \E n \in 0..MaxRetries :
           /\ config = RetryConfig(n, 1, 2, 2, FALSE)
           /\ \E s \in Scripts(n + 1) : script = Tagged(s)
           /\ draws \in DrawSeqs(n, FALSE)
    /\ rs = [t \in Tasks |-> RetryStart]
    /\ dl = NoDelayCall
    /\ thread = "free"
    /\ IdleIO
    /\ cb = CircuitBreaker(1, 0)
    /\ now = 0
    /\ calls = [p \in Procs |-> IdleCall]
    /\ last = [op |-> "none", proc |-> "none", ret |-> TRUE,
               outcome |-> NoResult, pre |-> cb, at |-> 0]
    /\ streak = NoStreak

SpecLoop == InitLoop /\ [][NextR]_vars

\* the retry executors and the breaker are not in use
IdleResilience ==
    /\ config = DefaultConfig
    /\ script = <<>>
    /\ rs = [v \in Variants |-> RetryStart]
    /\ dl = NoDelayCall
    /\ draws = <<>>
    /\ thread = "free"
    /\ cb = CircuitBreaker(1, 0)
    /\ now = 0
    /\ calls = [p \in Procs |-> IdleCall]
    /\ last = [op |-> "none", proc |-> "none", ret |-> TRUE,
               outcome |-> NoResult, pre |-> cb, at |-> 0]
    /\ streak = NoStreak

\* validate_ollama_connection on every argument and every course of the probe
InitV ==
    /\ \E h \in Hosts, p \in Ports, t \in Timeouts, pr \in Probes :
           vc = [NoValidation EXCEPT !.host = h, !.port = p, !.timeout = t,
                                     !.probe = pr]
    /\ mc = NoModelCheck
    /\ qo = NoDecode
    /\ ex = NoExtract
    /\ tool = NoToolCall
    /\ IdleResilience

NextV == Validate

SpecValidate == InitV /\ [][NextV]_vars

\* check_model_available on every requested name, every course of the
\* request and every body of the answer (the body counts only when the
\* request succeeded)
InitM ==
    /\ \E m \in Strings(MaxNameLen), pr \in Probes, b \in Bodies :
           /\ pr.kind = "raise" => b.kind = "text"
           /\ mc = [NoModelCheck EXCEPT !.model = m, !.probe = pr, !.body = b]
    /\ vc = NoValidation
    /\ qo = NoDecode
    /\ ex = NoExtract
    /\ tool = NoToolCall
    /\ IdleResilience

NextM == CheckModel

SpecModels == InitM /\ [][NextM]_vars

\* query_ollama decoding every response body
InitQ ==
    /\ \E b \in ResponseBodies : qo = DecodeStart(b)
    /\ ex = NoExtract
    /\ tool = NoToolCall
    /\ IdleValidators
    /\ IdleResilience

NextQ ==
    \/ DecodeLine
    \/ DecodeEnd

SpecDecode == InitQ /\ [][NextQ]_vars

\* extract_dockerfile_content on every analysis text
InitX ==
    /\ \E t \in Texts : ex = ExtractStart(t)
    /\ tool = NoToolCall
    /\ IdleValidators
    /\ IdleDecoder
    /\ IdleResilience

NextX ==
    \/ ExtractLine
    \/ ExtractEnd

SpecExtract == InitX /\ [][NextX]_vars

\* an analyze_dockerfile tool call with every argument and every environment
InitT ==
    /\ \E a \in ToolArguments, v \in ToolEnvs : tool = ToolStart(a, v)
    /\ IdleValidators
    /\ IdleDecoder
    /\ IdleExtractor
    /\ IdleResilience

NextT == ToolStep

SpecTool == InitT /\ [][NextT]_vars

\* retry_async around the breaker's call_async around the operation
InitCompose ==
    /\ InitBreaker
    /\ \E n \in 0..MaxRetries :
           /\ config = RetryConfig(n, 1, 2, 2, FALSE)
           /\ \E s \in Scripts(n + 1) : script = Tagged(s)
           /\ draws \in DrawSeqs(n, FALSE)
    /\ rs = [v \in {"retry_async"} |-> RetryStart]
    /\ dl = NoDelayCall
    /\ thread = "free"
    /\ IdleIO

NextC ==
    \/ \E v \in DOMAIN rs : ComposedAttempt(v)
    \/ \E v \in DOMAIN rs : RetryWake(v)
    \/ Tick

SpecCompose == InitCompose /\ [][NextC]_vars

\* retry_async and retry_sync when every invocation of the operation ends
\* and every sleep returns: an attempt that can be made is made, a wait
\* that can end ends
Fairness ==
    \A v \in Variants :
        /\ WF_vars(RetryAttempt(v))
        /\ WF_vars(RetryWake(v))

SpecRetryLive == InitR /\ [][NextR]_vars /\ Fairness

\* the policies get_delay is applied to: positive initial_delay,
\* max_delay >= initial_delay, exponential_base > 1
Policies ==
    {RetryConfig(3, i, m, b, j) :
        i \in 1..MaxInitial, m \in 1..MaxDelay, b \in 2..MaxBase,
        j \in BOOLEAN}

InitD ==
    /\ \E c \in Policies : c.initial_delay <= c.max_delay /\ config = c
    /\ dl = NoDelayCall
    /\ script = <<>>
    /\ rs = [v \in Variants |-> RetryStart]
    /\ draws = <<>>
    /\ thread = "free"
    /\ IdleIO
    /\ cb = CircuitBreaker(1, 0)
    /\ now = 0
    /\ calls = [p \in Procs |-> IdleCall]
    /\ last = [op |-> "none", proc |-> "none", ret |-> TRUE,
               outcome |-> NoResult, pre |-> cb, at |-> 0]
    /\ streak = NoStreak

NextD == \E a \in 0..MaxAttempt : \E k \in Draws : GetDelay(a, k)

SpecDelay == InitD /\ [][NextD]_vars

\* ------------------------------------------------------------ properties
\* the operation fails (with an error the executor's handler catches) on its
\* first n-1 invocations and returns on its n-th
SucceedsAt(n) ==
    /\ n \in DOMAIN script
    /\ script[n].tag = "return"
    /\ \A m \in 1..(n - 1) : IsException(script[m])

\* every invocation of the operation fails with a caught error
AlwaysFails == \A n \in DOMAIN script : IsException(script[n])

\* C1: when the operation fails on its first k invocations (k <= max_retries)
\* and returns on invocation k+1, retry_async and retry_sync return that very
\* value after exactly k+1 invocations, and never invoke it more than k+1 times.
C1_SuccessAfterFailures ==
    \A v \in Variants : \A n \in DOMAIN script :
        SucceedsAt(n) =>
            /\ rs[v].invocations <= n
            /\ rs[v].pc = "done" =>
                   /\ rs[v].result = script[n]
                   /\ rs[v].invocations = n

C1_Witness ==
    \E v \in Variants :
        /\ SucceedsAt(3)
        /\ rs[v].pc = "done"
        /\ rs[v].result = script[3]
        /\ rs[v].invocations = 3

\* C2: when every invocation fails, the operation is invoked exactly
\* max_retries+1 times and the error raised is the object raised by the last
\* invocation.
C2_ExhaustedRaisesLast ==
    \A v \in Variants :
        AlwaysFails =>
            /\ rs[v].invocations <= config.max_retries + 1
            /\ rs[v].pc = "done" =>
                   /\ rs[v].invocations = config.max_retries + 1
                   /\ rs[v].result = script[config.max_retries + 1]

C2_Witness ==
    \E v \in Variants :
        /\ AlwaysFails
        /\ config.max_retries = 2
        /\ script[1].val # script[3].val
        /\ rs[v].pc = "done"
        /\ rs[v].result = script[3]

\* C3: on a fresh breaker, after j record_failure calls and nothing else that
\* resets it, failure_count = j and is_open holds exactly when
\* j >= failure_threshold.
C3_ThresholdBoundary ==
    streak.fresh =>
        /\ cb.failure_count = streak.fails
        /\ cb.is_open <=> (streak.fails >= cb.failure_threshold)

C3_Witness ==
    /\ streak.fresh
    /\ cb.failure_threshold = 2
    /\ streak.fails = 2
    /\ cb.is_open
    /\ last.op = "record_failure"
    /\ ~last.pre.is_open

\* elapsed time since the last recorded failure, read at clock value t
Elapsed(b, t) == t - b.last_failure_time

IsShouldAttempt == last.op = "should_attempt"

\* C4: once failure_threshold consecutive failures are recorded,
\* should_attempt() is false while the time since the last failure does not
\* exceed recovery_timeout; on a closed breaker should_attempt() is true.
C4_OpenRejectsClosedAdmits ==
    /\ (streak.fails = cb.failure_threshold
            /\ Elapsed(cb, now) <= cb.recovery_timeout)
           => ~should_attempt(cb, now).ret
    /\ ~cb.is_open => should_attempt(cb, now).ret
    /\ IsShouldAttempt =>
           /\ ~last.pre.is_open => last.ret
           /\ (last.pre.is_open
                   /\ Elapsed(last.pre, last.at) <= last.pre.recovery_timeout)
                  => ~last.ret

C4_Witness ==
    /\ IsShouldAttempt
    /\ ~last.ret
    /\ streak.fails = cb.failure_threshold
    /\ Elapsed(last.pre, last.at) = last.pre.recovery_timeout
    /\ last.pre.recovery_timeout > 0

\* the breaker b is open and its recovery timeout has not elapsed at time t
Rejecting(b, t) ==
    /\ b.is_open
    /\ b.last_failure_time # None
    /\ Elapsed(b, t) <= b.recovery_timeout

\* C5: a call_async entered while the breaker is open and not yet recoverable
\* fails at once with the breaker's OllamaConnectionError and does not invoke
\* the operation; no operation is started in such a state, whatever the
\* other task is doing.
C5_OpenNeverInvokes ==
    last.op = "call_enter" =>
        /\ Rejecting(last.pre, last.at) =>
               /\ calls[last.proc].pc = "done"
               /\ calls[last.proc].invoked = 0
               /\ calls[last.proc].result =
                      Raise("OllamaConnectionError", "breaker", 0)
        /\ calls[last.proc].invoked > 0 => ~Rejecting(last.pre, last.at)

C5_Witness ==
    /\ last.op = "call_enter"
    /\ Rejecting(last.pre, last.at)
    /\ calls[last.proc].invoked = 0
    /\ \E q \in Procs \ {last.proc} : calls[q].pc = "inflight"

\* C6 as stated: every admitted call_async invokes the operation once and
\* records one outcome, record_success when it returned and record_failure
\* when it raised anything.
C6_Original ==
    \A p \in Procs :
        (calls[p].admitted /\ calls[p].pc = "done") =>
            /\ calls[p].invoked = 1
            /\ \/ calls[p].outcome.tag = "return"
                      /\ calls[p].recorded = <<"record_success">>
               \/ calls[p].outcome.tag = "raise"
                      /\ calls[p].recorded = <<"record_failure">>

\* C6 amended: every admitted call_async invokes the operation exactly once;
\* it records record_success when the operation returned, record_failure when
\* it raised an error derived from Exception, and nothing when it raised an
\* error that is not derived from Exception; a rejected call invokes and
\* records nothing.
C6_OneOutcomePerCaughtResult ==
    \A p \in Procs :
        /\ calls[p].admitted =>
               /\ calls[p].invoked = 1
               /\ calls[p].pc = "inflight" => calls[p].recorded = <<>>
               /\ calls[p].pc = "done" =>
                      \/ calls[p].outcome.tag = "return"
                             /\ calls[p].recorded = <<"record_success">>
                      \/ IsException(calls[p].outcome)
                             /\ calls[p].recorded = <<"record_failure">>
                      \/ calls[p].outcome.tag = "raise"
                             /\ ~IsException(calls[p].outcome)
                             /\ calls[p].recorded = <<>>
        /\ ~calls[p].admitted =>
               calls[p].invoked = 0 /\ calls[p].recorded = <<>>

C6_Witness ==
    \E p \in Procs : \E q \in Procs \ {p} :
        /\ calls[p].pc = "done" /\ calls[p].admitted
        /\ calls[p].outcome.val = "CancelledError"
        /\ calls[p].recorded = <<>>
        /\ calls[q].pc = "done" /\ calls[q].admitted
        /\ calls[q].outcome.val = "ValueError"
        /\ calls[q].recorded = <<"record_failure">>

\* C7: an admitted call_async hands its caller exactly what the operation
\* produced: the raised error object itself, also when recording it opens the
\* breaker, or the returned value.
C7_OutcomeUnchanged ==
    \A p \in Procs :
        (calls[p].admitted /\ calls[p].pc = "done") =>
            calls[p].result = calls[p].outcome

C7_Witness ==
    /\ last.op = "call_finish"
    /\ ~last.pre.is_open
    /\ cb.is_open
    /\ last.outcome.tag = "raise"
    /\ calls[last.proc].result = last.outcome

\* record_success was the last breaker operation, called directly or by
\* call_async
SuccessRecorded ==
    \/ last.op = "record_success"
    \/ last.op = "call_finish"
           /\ calls[last.proc].recorded = <<"record_success">>

\* C8: whatever the breaker state before, record_success leaves
\* failure_count = 0 and is_open = false, and should_attempt() then returns
\* true.
C8_SuccessCloses ==
    SuccessRecorded =>
        /\ cb.failure_count = 0
        /\ ~cb.is_open
        /\ should_attempt(cb, now).ret

C8_Witness ==
    /\ last.op = "record_success"
    /\ Rejecting(last.pre, last.at)
    /\ last.pre.failure_count > 0
    /\ ~cb.is_open

\* C9: on an open breaker should_attempt() (called directly or by call_async)
\* returns true exactly when the time since last_failure_time is strictly
\* greater than recovery_timeout; returning true it resets failure_count and
\* is_open, returning false it changes nothing; so an open breaker whose
\* timeout has passed admits the next call.
C9_RecoveryStrictlyAfterTimeout ==
    /\ (last.op \in {"should_attempt", "call_enter"} /\ last.pre.is_open) =>
           /\ last.ret <=>
                  Elapsed(last.pre, last.at) > last.pre.recovery_timeout
           /\ last.ret => cb.failure_count = 0 /\ ~cb.is_open
           /\ ~last.ret => cb = last.pre
    /\ (cb.is_open /\ Elapsed(cb, now) > cb.recovery_timeout)
           => should_attempt(cb, now).ret

C9_Witness ==
    /\ IsShouldAttempt
    /\ last.pre.is_open
    /\ last.ret
    /\ last.pre.failure_count > 0
    /\ cb.failure_count = 0
    /\ Elapsed(last.pre, last.at) = last.pre.recovery_timeout + 1

\* C10 as stated: after a recovery, the next failure recorded (no success in
\* between) re-opens the breaker.
C10_Original ==
    (streak.recovered /\ streak.fails = 1) => cb.is_open

\* C10 amended: the recovery restarts the count at 0, so after it the breaker
\* re-opens at the failure_threshold-th failure recorded with no success in
\* between: at the next failure only when failure_threshold = 1.
C10_ReopensAtThreshold ==
    streak.recovered =>
        /\ cb.failure_count = streak.fails
        /\ cb.is_open <=> (streak.fails >= cb.failure_threshold)
        /\ (streak.fails = 1 /\ cb.failure_threshold = 1) => cb.is_open

C10_Witness ==
    /\ streak.recovered
    /\ cb.failure_threshold = 2
    /\ streak.fails = 2
    /\ cb.is_open
    /\ last.op \in {"record_failure", "call_finish"}
    /\ ~last.pre.is_open

\* the delay without jitter as the specification states it, in seconds:
\* min(initial_delay * exponential_base^attempt, max_delay)
Expected(cfg, attempt) ==
    Min(cfg.initial_delay * Pow(cfg.exponential_base, attempt), cfg.max_delay)

\* C11 as stated: with jitter disabled, get_delay(attempt) returns
\* min(initial_delay * exponential_base^attempt, max_delay) for every
\* attempt >= 0.
C11_Original ==
    (dl.called /\ ~config.jitter) =>
        dl.result = Delay(Unit * Expected(config, dl.attempt))

\* C12 as stated: with jitter enabled, for every attempt >= 0 and every draw,
\* get_delay(attempt) returns a delay d with
\* 0.5 * expected <= d < 1.5 * expected, and d is not negative.
C12_Original ==
    (dl.called /\ config.jitter) =>
        /\ dl.result.tag = "delay"
        /\ dl.result.ticks >= 0
        /\ Unit * Expected(config, dl.attempt) <= 2 * dl.result.ticks
        /\ 2 * dl.result.ticks < 3 * Unit * Expected(config, dl.attempt)

\* C13 as stated: for every policy and every attempt >= 0, also a very large
\* one, get_delay returns a delay and it does not exceed max_delay.
C13_Original ==
    dl.called =>
        /\ dl.result.tag = "delay"
        /\ dl.result.ticks <= Unit * config.max_delay

\* C14 as stated: with jitter enabled no returned delay is smaller than the
\* delay without jitter.
C14_Original ==
    (dl.called /\ config.jitter /\ dl.result.tag = "delay") =>
        dl.result.ticks >= Unit * Expected(config, dl.attempt)

\* C14 amended: with jitter enabled every returned delay is at least half the
\* delay without jitter, the draw 0 returns exactly that half, and every draw
\* below 1/2 returns less than the delay without jitter.
C14_FloorIsHalf ==
    (dl.called /\ config.jitter /\ dl.result.tag = "delay") =>
        /\ 2 * dl.result.ticks >= Unit * Expected(config, dl.attempt)
        /\ dl.draw = 0 =>
               2 * dl.result.ticks = Unit * Expected(config, dl.attempt)
        /\ 2 * dl.draw < RandDen <=>
               dl.result.ticks < Unit * Expected(config, dl.attempt)

C14_Witness ==
    /\ dl.called
    /\ config.jitter
    /\ dl.result.tag = "delay"
    /\ dl.attempt > 0
    /\ 2 * dl.result.ticks = Unit * Expected(config, dl.attempt)
    /\ dl.result.ticks < Unit * Expected(config, dl.attempt)

\* what the operation did on the latest invocation made by v
LatestOutcome(v) == script[rs[v].invocations]

\* the latest invocation made by v raised while attempts remained
RaisedWithAttemptsLeft(v) ==
    /\ rs[v].invocations \in DOMAIN script
    /\ LatestOutcome(v).tag = "raise"
    /\ rs[v].invocations <= config.max_retries

\* C15 as stated: whatever the kind of failure an attempt raises, if attempts
\* remain the executor does not end on it (the operation is invoked again).
C15_Original ==
    \A v \in Variants :
        RaisedWithAttemptsLeft(v) => rs[v].pc # "done"

\* C15: a failure derived from Exception raised while attempts remain never
\* ends the executor, of whatever class it is: the executor waits and invokes
\* the operation again. A raise that is not derived from Exception (a
\* cancellation) ends the executor at once with that very raise.
C15_ExceptionsRetriedOthersPropagate ==
    \A v \in Variants :
        RaisedWithAttemptsLeft(v) =>
            IF IsException(LatestOutcome(v))
            THEN rs[v].pc # "done"
            ELSE rs[v].pc = "done" /\ rs[v].result = LatestOutcome(v)

C15_Witness ==
    \E v \in Variants :
        /\ rs[v].invocations = 3
        /\ script[1].val = "ValueError"
        /\ script[2].val = "OllamaConnectionError"
        /\ script[3].val = "CancelledError"
        /\ rs[v].pc = "done"
        /\ rs[v].result = script[3]

\* C16: for the same policy, the same per-attempt outcomes and the same
\* random draws, retry_async and retry_sync that have both ended made the
\* same number of invocations with the same forwarded arguments, asked for
\* the same sequence of delays and ended with the same value or error; before
\* that, the one that is behind has asked for a prefix of the other's delays.
C16_SameRetrySemantics ==
    LET a == rs["retry_async"]
        s == rs["retry_sync"]
    IN  /\ (a.pc = "done" /\ s.pc = "done") =>
               /\ a.invocations = s.invocations
               /\ a.forwarded = s.forwarded
               /\ a.delays = s.delays
               /\ a.result = s.result
        /\ a.invocations = s.invocations =>
               /\ a.delays = s.delays
               /\ a.forwarded = s.forwarded
               /\ a.last_exception = s.last_exception
        /\ wait_primitive("retry_async") # wait_primitive("retry_sync")

C16_Witness ==
    LET a == rs["retry_async"]
        s == rs["retry_sync"]
    IN  /\ a.pc = "done" /\ s.pc = "done"
        /\ config.jitter
        /\ a.invocations = 3 /\ s.invocations = 3
        /\ Len(a.delays) = 2 /\ a.delays = s.delays
        /\ a.delays[1].ticks # a.delays[2].ticks
        /\ a.forwarded = {CallArgs} /\ s.forwarded = {CallArgs}
        /\ a.result.tag = "raise" /\ a.result = s.result

\* C17: while a retry_async invocation is in its backoff wait the event
\* loop's thread is free, and every other retry_async invocation on the loop
\* can take its next step: make its next attempt, or end its own wait.
C17_WaitDoesNotBlock ==
    \A a \in Tasks : \A b \in Tasks \ {a} :
        rs[a].pc = "sleep" =>
            /\ thread = "free"
            /\ rs[b].pc = "call" => ENABLED RetryAttempt(b)
            /\ rs[b].pc = "sleep" => ENABLED RetryWake(b)

\* one task is still in its first wait and the other has made all its three
\* attempts and ended during that wait
C17_Witness ==
    \E a \in Tasks : \E b \in Tasks \ {a} :
        /\ rs[a].pc = "sleep" /\ rs[a].invocations = 1
        /\ rs[a].overtaken = 3
        /\ rs[b].pc = "done" /\ rs[b].invocations = 3

\* C18: with call_async invocations of several tasks interleaved on one
\* breaker, no update is lost: failure_count equals the number of failures
\* recorded since the last success or recovery reset, and the breaker is open
\* once that number has reached failure_threshold.
C18_NoLostUpdate ==
    /\ cb.failure_count = streak.fails
    /\ streak.fails >= cb.failure_threshold => cb.is_open

\* two calls whose operations were awaited at the same time have both failed
C18_Witness ==
    /\ \A p \in Procs :
           /\ calls[p].pc = "done"
           /\ calls[p].recorded = <<"record_failure">>
    /\ streak.overlapped
    /\ cb.failure_threshold = 2
    /\ streak.fails = 2
    /\ cb.failure_count = 2
    /\ cb.is_open
    /\ last.op = "call_finish" /\ ~last.pre.is_open

\* the composed call has ended by raising
ComposedRaised ==
    /\ rs["retry_async"].pc = "done"
    /\ rs["retry_async"].result.tag = "raise"

\* C19 as stated: the error the composition finally raises was raised by the
\* wrapped operation itself.
C19_Original ==
    ComposedRaised => rs["retry_async"].result.src = "op"

\* C19: the error the composition finally raises is the failure of its last
\* attempt, unchanged: the very error the operation raised on its last
\* invocation when the breaker admitted that attempt, and the breaker's own
\* open-circuit error when the breaker rejected it.
C19_LastAttemptsFailure ==
    LET r == rs["retry_async"]
    IN  ComposedRaised =>
            /\ r.result = last.outcome
            /\ last.ret => r.result = script[r.invocations]
            /\ ~last.ret =>
                   /\ last.pre.is_open
                   /\ r.result = Raise("OllamaConnectionError", "breaker", 0)

\* the operation failed, the breaker opened, and the last attempt was
\* rejected: the caller gets the breaker's error
C19_Witness ==
    LET r == rs["retry_async"]
    IN  /\ ComposedRaised
        /\ r.invocations = 3
        /\ script[1].tag = "raise"
        /\ cb.is_open
        /\ ~last.ret
        /\ r.result.src = "breaker"

\* the probe of the finished validation succeeded with a non-error status
ProbeSucceeded == vc.probe.kind = "response" /\ vc.raised = "none"

\* C20 as stated: the validation either returns true, on a probe that
\* succeeded, or fails with OllamaConnectionError; nothing else leaves it.
C20_Original ==
    vc.called =>
        IF ProbeSucceeded
        THEN vc.result = Returned(TRUE)
        ELSE vc.result.tag = "raise" /\ vc.result.class = "OllamaConnectionError"

\* C20: the validation returns true exactly when the probe succeeded; every
\* failure derived from Exception (refused, timed out, HTTP error status,
\* other HTTP-layer error, unexpected error) leaves it as
\* OllamaConnectionError; a raise not derived from Exception (cancellation)
\* leaves it as it is; it never returns false.
C20_TrueOrConnectionError ==
    vc.called =>
        /\ vc.result # Returned(FALSE)
        /\ ProbeSucceeded <=> vc.result = Returned(TRUE)
        /\ (~ProbeSucceeded /\ Catches("Exception", vc.raised)) =>
               /\ vc.result.tag = "raise"
               /\ vc.result.class = "OllamaConnectionError"
        /\ (~ProbeSucceeded /\ ~Catches("Exception", vc.raised)) =>
               /\ vc.result.tag = "raise"
               /\ vc.result.class = vc.raised

\* an HTTP error status, wrapped
C20_Witness ==
    /\ vc.called
    /\ vc.probe.kind = "response" /\ vc.probe.status = 500
    /\ vc.raised = "HTTPStatusError"
    /\ vc.result.tag = "raise"
    /\ vc.result.class = "OllamaConnectionError"

\* a descriptor as the listing endpoint documents it: an object whose name,
\* when it has one, is a string
IsDescriptor(e) ==
    e.type = "dict" /\ (HasName(e) => e.items[1].type = "str")

\* the listing is a JSON object whose models, when present, is a list of
\* descriptors
WellFormed(body) ==
    /\ body.kind = "object"
    /\ body.has_models =>
           /\ body.models.type = "list"
           /\ \A i \in DOMAIN body.models.items :
                  IsDescriptor(body.models.items[i])

\* the registered names of a well-formed listing; a descriptor without a
\* name counts as the empty name
RegisteredNames(body) ==
    IF body.has_models
    THEN {IF HasName(body.models.items[i])
          THEN body.models.items[i].items[1].val ELSE <<>> :
             i \in DOMAIN body.models.items}
    ELSE {}

\* x is a contiguous part of y
IsSubstringOf(x, y) ==
    \E a \in 0..Len(y) : \E b \in a..Len(y) : SubSeq(y, a + 1, b) = x

\* C21: when the listing request succeeds with a well-formed listing,
\* check_model_available returns true if and only if some registered name
\* contains the requested name as a substring (a descriptor without a name
\* counting as the empty name, no registered model giving false).
C21_SubstringMatch ==
    (mc.called /\ mc.raised = "none" /\ WellFormed(mc.body)) =>
        mc.result =
            Returned(\E n \in RegisteredNames(mc.body) :
                         IsSubstringOf(mc.model, n))

\* the requested name is an inner part of the second registered name only
C21_Witness ==
    /\ mc.called /\ mc.raised = "none"
    /\ mc.model = <<"b">>
    /\ mc.body.has_models
    /\ mc.body.models = List(<<NoName, Dict(TRUE, Str(<<"a", "b">>))>>)
    /\ mc.result = Returned(TRUE)

IsConnectionError(r) == r.tag = "raise" /\ r.class = "OllamaConnectionError"

ValidLines(body) == SelectSeq(body, LAMBDA l : l.kind = "fragment")

\* the index of the first final fragment, or the last index when none is final
FirstFinal(frags) ==
    IF \E i \in DOMAIN frags : frags[i].done
    THEN CHOOSE i \in DOMAIN frags :
             frags[i].done /\ \A j \in 1..(i - 1) : ~frags[j].done
    ELSE Len(frags)

\* the texts of the first n fragments, joined in order
RECURSIVE Joined(_, _)
Joined(frags, n) ==
    IF n = 0 THEN <<>> ELSE Joined(frags, n - 1) \o frags[n].text

\* the analysis a body stands for: its fragments' texts in line order up to
\* and including the first final fragment
AnalysisOf(body) ==
    LET frags == ValidLines(body) IN Joined(frags, FirstFinal(frags))

\* C23: what the streaming decoder has accumulated after any number of lines
\* is the concatenation, in line order, of the response fields of the
\* fragments read so far up to and including the first final one; when it
\* returns, it returns that concatenation for the whole body, and it returns
\* whenever that concatenation is not empty.
C23_ConcatToFirstFinal ==
    /\ qo.pc = "lines" => qo.text = AnalysisOf(SubSeq(qo.body, 1, qo.pos))
    /\ qo.pc = "done" =>
           /\ qo.result.tag = "return" => qo.result.text = AnalysisOf(qo.body)
           /\ AnalysisOf(qo.body) # <<>> =>
                  qo.result = Analysis(AnalysisOf(qo.body))

\* text follows the first final fragment and is left out
C23_Witness ==
    /\ qo.pc = "done"
    /\ qo.body = <<Fragment(<<"a">>, FALSE), Fragment(<<"b">>, TRUE),
                   Fragment(<<"a">>, TRUE)>>
    /\ qo.result = Analysis(<<"a", "b">>)

HasMalformed(body) == \E i \in DOMAIN body : body[i].kind = "malformed"

\* C25: with lines that do not parse among lines that do, the decode goes on
\* and the result is the concatenation over the lines that parse, in order;
\* a body none of whose lines parses ends exactly as the empty body does.
C25_MalformedLinesSkipped ==
    (qo.pc = "done" /\ HasMalformed(qo.body)) =>
        LET valid == ValidLines(qo.body)
        IN  /\ (valid # <<>> /\ Joined(valid, FirstFinal(valid)) # <<>>) =>
                   qo.result = Analysis(Joined(valid, FirstFinal(valid)))
            /\ valid = <<>> =>
                   /\ qo.result.tag = "raise"
                   /\ qo.result.class = "OllamaResponseError"
                   /\ qo.text = <<>> /\ qo.parsed = 0 /\ ~qo.done

\* a line that does not parse stands between two fragments
C25_Witness ==
    /\ qo.pc = "done"
    /\ qo.body = <<Fragment(<<"a">>, FALSE), Malformed,
                   Fragment(<<"b">>, TRUE)>>
    /\ qo.result = Analysis(<<"a", "b">>)

\* the positions of the fences of a text
FenceLines(text) == {i \in DOMAIN text : IsFence(text[i])}

Least(S) == CHOOSE i \in S : \A j \in S : i <= j
Greatest(S) == CHOOSE i \in S : \A j \in S : j <= i

\* a fenced block exists: an opening fence and a later closing one
HasBlock(text) == Cardinality(FenceLines(text)) >= 2

\* the fences of the first block
OpenAt(text) == Least(FenceLines(text))
CloseAt(text) == Least(FenceLines(text) \ {OpenAt(text)})

\* the positions of the non-blank lines inside the first block
Inner(text) ==
    {i \in DOMAIN text :
        OpenAt(text) < i /\ i < CloseAt(text) /\ text[i] # "blank"}

\* the first block's first non-blank line begins with FROM
StartsWithFrom(text) ==
    HasBlock(text) /\ Inner(text) # {} /\ text[Least(Inner(text))] = "from"

\* C26: extract_dockerfile_content returns either absent or a trimmed block
\* whose first line begins with FROM; a text without a fenced block, and a
\* text whose first fenced block does not start (blank lines apart) with a
\* FROM line, give absent.
C26_AbsentOrFromBlock ==
    ex.pc = "done" =>
        /\ \/ ex.result = Absent
           \/ /\ ex.result.tag = "block"
              /\ ex.result.lines # <<>>
              /\ Head(ex.result.lines) = "from"
              /\ ex.result.lines[Len(ex.result.lines)] # "blank"
        /\ ~HasBlock(ex.text) => ex.result = Absent
        /\ (HasBlock(ex.text) /\ ~StartsWithFrom(ex.text)) =>
               ex.result = Absent

\* the first block is not a Dockerfile, and a FROM line between fences
\* follows it
C26_Witness ==
    /\ ex.pc = "done"
    /\ ex.text = <<"fence_dockerfile", "other", "fence", "from", "fence">>
    /\ ex.result = Absent

\* C27: the result comes from the first fenced block only, whether its
\* opening fence carries the label dockerfile or none: when that block
\* starts with a FROM line the result is its content from its first to its
\* last non-blank line; the extractor ends with a block or with absent and
\* in no other way.
C27_FirstBlockTrimmed ==
    ex.pc = "done" =>
        /\ ex.result.tag \in {"absent", "block"}
        /\ StartsWithFrom(ex.text) =>
               ex.result = Block(SubSeq(ex.text, Least(Inner(ex.text)),
                                        Greatest(Inner(ex.text))))
        /\ ex.result.tag = "block" => StartsWithFrom(ex.text)

\* an unlabelled block with blank lines around its content
C27_Witness ==
    /\ ex.pc = "done"
    /\ ex.text = <<"fence", "blank", "from", "blank", "fence">>
    /\ ex.result = Block(<<"from">>)

\* something fails in the tool call: an argument or the file is missing, or
\* a collaborator that is called raises
ToolFails ==
    \/ ~tool.args.has_path
    \/ ~tool.env.exists
    \/ tool.env.read # "ok"
    \/ tool.env.query # "ok"
    \/ SaveResults(tool.args) /\ tool.env.save_analysis # "ok"
    \/ /\ SaveResults(tool.args) /\ tool.env.corrected = "block"
       /\ tool.env.save_dockerfile # "ok"

\* C28 as stated: every analyze_dockerfile tool call ends with a response
\* returned to the caller, an error response when something failed; no
\* error leaves analyze_dockerfile_tool.
C28_Original ==
    tool.pc = "done" =>
        /\ tool.result.tag = "response"
        /\ ToolFails => tool.result.status = "error"

\* the waits v has asked for so far
Waits(v) == Len(rs[v].delays)

\* C29: in a retry invocation waits and attempts alternate, starting with an
\* attempt: while the executor waits it has asked for as many waits as it
\* has made attempts; when it is about to attempt, or has ended, it has made
\* one attempt more than it has waited (none of either before the first
\* attempt), so no wait follows a success, a propagated raise or the final
\* failed attempt; and the j-th wait is for get_delay(j-1), the delay of the
\* attempt that has just failed.
C29_WaitsAlternate ==
    \A v \in Variants :
        /\ rs[v].pc = "sleep" =>
               /\ Waits(v) = rs[v].invocations
               /\ rs[v].invocations <= config.max_retries
               /\ IsException(script[rs[v].invocations])
        /\ rs[v].pc = "call" =>
               /\ Waits(v) = rs[v].invocations
               /\ rs[v].attempt = rs[v].invocations
        /\ rs[v].pc = "done" => Waits(v) = rs[v].invocations - 1
        /\ \A j \in 1..Waits(v) :
               /\ rs[v].delays[j].attempt = j - 1
               /\ rs[v].delays[j].ticks =
                      get_delay(config, j - 1, Draw(j)).ticks

\* three attempts, two waits, of one and of two seconds
C29_Witness ==
    \E v \in Variants :
        /\ rs[v].pc = "done"
        /\ ~config.jitter
        /\ rs[v].invocations = 3
        /\ rs[v].delays = <<[attempt |-> 0, ticks |-> Unit],
                            [attempt |-> 1, ticks |-> 2 * Unit]>>
        /\ rs[v].result.tag = "raise"

\* C30: the breaker counts consecutive failures only: failure_count is the
\* number of failures recorded since the last success or recovery reset, a
\* recorded success leaves the count at 0 and the breaker closed, and the
\* breaker is open only when failure_threshold failures have been recorded
\* with no success in between.
C30_ConsecutiveOnly ==
    /\ cb.failure_count = streak.fails
    /\ SuccessRecorded => cb.failure_count = 0 /\ ~cb.is_open
    /\ cb.is_open => streak.fails >= cb.failure_threshold

\* failure, success, failure with threshold 2: both tasks' calls recorded a
\* failure, a success came between them, the count is 1 and the breaker closed
C30_Witness ==
    /\ \A p \in Procs :
           /\ calls[p].pc = "done"
           /\ calls[p].recorded = <<"record_failure">>
    /\ ~streak.fresh /\ ~streak.recovered
    /\ cb.failure_threshold = 2
    /\ streak.fails = 1
    /\ cb.failure_count = 1
    /\ ~cb.is_open
    /\ last.op = "call_finish" /\ last.pre.failure_count = 0

\* the last step recorded a failure, directly or at the end of a call_async
FailureRecorded ==
    \/ last.op = "record_failure"
    \/ last.op = "call_finish"
           /\ calls[last.proc].recorded = <<"record_failure">>

\* C31: the recovery window is measured from the most recent recorded
\* failure: every record_failure, also one recorded while the breaker is
\* open, sets last_failure_time to the time of the call, no other operation
\* changes it, and on an open breaker should_attempt() (direct or inside
\* call_async) is false as long as no more than recovery_timeout has elapsed
\* since it.
C31_WindowFromLatestFailure ==
    /\ FailureRecorded => cb.last_failure_time = last.at
    /\ (last.op # "none" /\ ~FailureRecorded) =>
           cb.last_failure_time = last.pre.last_failure_time
    /\ cb.is_open => cb.last_failure_time # None
    /\ (last.op \in {"should_attempt", "call_enter"} /\ last.pre.is_open
            /\ last.at - last.pre.last_failure_time
                   <= last.pre.recovery_timeout)
           => ~last.ret /\ cb.is_open

\* a call that was in flight when the breaker opened fails after the first
\* window has run out: the window restarts at that failure
C31_Witness ==
    /\ last.op = "call_finish"
    /\ calls[last.proc].recorded = <<"record_failure">>
    /\ last.pre.is_open
    /\ last.at - last.pre.last_failure_time > last.pre.recovery_timeout
    /\ cb.last_failure_time = last.at
    /\ now = last.at
    /\ ~should_attempt(cb, now).ret

\* the four causes of a validation failure, most specific first
Refused(c) == Catches("ConnectError", c)
TimedOut(c) == Catches("TimeoutException", c)
OtherHTTP(c) == Catches("HTTPError", c) /\ ~Refused(c) /\ ~TimedOut(c)
Unexpected(c) == Catches("Exception", c) /\ ~Catches("HTTPError", c)

\* the fixed opening words of the message of a validation failure
Opening(r) == IF r.message = <<>> THEN "none" ELSE r.message[1]

\* C32: validate_ollama_connection classifies a failure by its most specific
\* cause: a connect failure gives the "Cannot connect" message, a timeout
\* (a connect timeout too) the "timed out" message, any other HTTP-layer
\* error (an error status too) the "HTTP error" message, and the
\* "Unexpected error" message is given to errors outside the HTTP layer only.
C32_MostSpecificCause ==
    (vc.called /\ vc.raised # "none") =>
        /\ Refused(vc.raised) =>
               vc.result.message =
                   <<"Cannot connect to Ollama at", vc.host, vc.port,
                     "Is Ollama running? Error:", vc.raised>>
        /\ TimedOut(vc.raised) =>
               vc.result.message =
                   <<"Connection to Ollama at", vc.host, vc.port,
                     "timed out. Error:", vc.raised>>
        /\ OtherHTTP(vc.raised) =>
               vc.result.message =
                   <<"HTTP error connecting to Ollama:", vc.raised>>
        /\ Opening(vc.result) = "Unexpected error validating Ollama connection:"
               <=> Unexpected(vc.raised)
        /\ vc.raised = "HTTPStatusError" =>
               Opening(vc.result) = "HTTP error connecting to Ollama:"

\* a connect timeout is an HTTP-layer error and a timeout: it is reported as
\* a timeout
C32_Witness ==
    /\ vc.called
    /\ vc.raised = "ConnectTimeout"
    /\ Catches("HTTPError", vc.raised)
    /\ vc.result.class = "OllamaConnectionError"
    /\ Opening(vc.result) = "Connection to Ollama at"

\* the three fields that make up the breaker's state
BreakerState(b) == <<b.failure_count, b.last_failure_time, b.is_open>>

\* the step just taken was record_success, record_failure (direct or at the
\* end of a call_async) or a should_attempt that took its recovery branch
\* (direct or at the start of a call_async)
Mutator ==
    \/ last.op \in {"record_success", "record_failure"}
    \/ last.op = "call_finish" /\ calls[last.proc].recorded # <<>>
    \/ /\ last.op \in {"should_attempt", "call_enter"}
       /\ last.pre.is_open
       /\ last.at - last.pre.last_failure_time > last.pre.recovery_timeout
       /\ last.ret

\* C33: failure_count, last_failure_time and is_open change only in a step
\* that is record_success, record_failure or the recovery branch of
\* should_attempt; should_attempt on a closed breaker, should_attempt on an
\* open breaker inside its window and a rejected call_async change none of
\* them, and neither does the passing of time.
C33_OnlyMutatorsChangeState ==
    [][BreakerState(cb') # BreakerState(cb) => (last'.pre = cb /\ Mutator')]_vars

\* a call rejected one tick after the failure that opened the breaker: the
\* count and last_failure_time are as that failure left them
C33_Witness ==
    /\ last.op = "call_enter"
    /\ ~last.ret
    /\ calls[last.proc].invoked = 0
    /\ last.pre.is_open
    /\ last.at > last.pre.last_failure_time
    /\ BreakerState(cb) = BreakerState(last.pre)
    /\ cb.failure_count = cb.failure_threshold

\* the statements of the tool in the order read, inference, extraction,
\* persistence
StepOrder ==
    <<"arguments", "exists", "read", "query", "extract", "save_analysis",
      "save_dockerfile", "respond">>
Rank(pc) == CHOOSE i \in DOMAIN StepOrder : StepOrder[i] = pc
Did(pc) == \E i \in DOMAIN tool.steps : tool.steps[i] = pc
Wrote(a) == \E i \in DOMAIN tool.written : tool.written[i] = a

\* C34: in analyze_dockerfile_tool the statements run in the order read,
\* inference, extraction, persistence; an artifact is written only after the
\* inference call returned and the extraction ran, and only with
\* save_results on; the analysis is written before the corrected
\* Dockerfile; the corrected Dockerfile is written only when the extractor
\* returned a block.
C34_ReadInferExtractPersist ==
    /\ \A i, j \in DOMAIN tool.steps :
           i < j => Rank(tool.steps[i]) < Rank(tool.steps[j])
    /\ Did("query") => Did("read")
    /\ Did("extract") => Did("query") /\ tool.env.query = "ok"
    /\ Did("save_analysis") => Did("extract")
    /\ Did("save_dockerfile") => Did("save_analysis")
    /\ tool.written # <<>> =>
           /\ Did("extract")
           /\ tool.env.query = "ok"
           /\ SaveResults(tool.args)
    /\ tool.written \in {<<>>, <<"analysis">>,
                         <<"analysis", "corrected_dockerfile">>}
    /\ Wrote("analysis") => Did("save_analysis")
    /\ Wrote("corrected_dockerfile") =>
           Did("save_dockerfile") /\ tool.env.corrected = "block"

\* a call that saved both artifacts, save_results left at its default
C34_Witness ==
    /\ tool.pc = "done"
    /\ tool.args.save_results = "absent"
    /\ tool.steps = StepOrder
    /\ tool.written = <<"analysis", "corrected_dockerfile">>
    /\ tool.result = SuccessResponse(tool.written)

\* C35: in every state the breaker reaches from a fresh one
\* (failure_threshold >= 1) by record_success, record_failure,
\* should_attempt and call_async, is_open is true exactly when
\* failure_count >= failure_threshold, and failure_count is not negative.
C35_OpenIffAtThreshold ==
    /\ cb.failure_threshold >= 1
    /\ cb.failure_count >= 0
    /\ cb.is_open <=> (cb.failure_count >= cb.failure_threshold)

\* the breaker opened, recovered, and a call made after the recovery has
\* failed: one failure counted, threshold 2, closed
C35_Witness ==
    /\ streak.recovered
    /\ last.op = "call_finish"
    /\ calls[last.proc].recorded = <<"record_failure">>
    /\ cb.failure_threshold = 2
    /\ cb.failure_count = 1
    /\ ~cb.is_open

\* the breaker's own refusal
OpenCircuitError == Raise("OllamaConnectionError", "breaker", 0)

\* the composed call has ended, every invocation of the operation failed
\* with a caught error, and the clock (0 at the start) has not passed the
\* recovery timeout: every attempt was made within it
FailedWithinTimeout ==
    /\ rs["retry_async"].pc = "done"
    /\ AlwaysFails
    /\ now <= cb.recovery_timeout

\* C36: retry_async around call_async of a fresh breaker, the operation
\* always failing and all attempts made within the recovery timeout:
\* retry_async makes max_retries + 1 attempts, the operation is invoked
\* min(max_retries + 1, failure_threshold) times (each invocation is one
\* recorded failure of the still fresh streak), and an attempt made on the
\* open breaker is rejected with the breaker's error and changes nothing.
C36_InvocationsCappedByThreshold ==
    /\ FailedWithinTimeout =>
           /\ rs["retry_async"].invocations = config.max_retries + 1
           /\ streak.fresh
           /\ streak.fails = Min(config.max_retries + 1, cb.failure_threshold)
           /\ cb.failure_count = streak.fails
           /\ config.max_retries + 1 > cb.failure_threshold =>
                  /\ ~last.ret
                  /\ rs["retry_async"].result = OpenCircuitError
    /\ (last.op = "call_async" /\ Rejecting(last.pre, last.at)) =>
           /\ ~last.ret
           /\ last.outcome = OpenCircuitError
           /\ cb = last.pre

\* three attempts, threshold 1: the operation ran once, two attempts were
\* rejected
C36_Witness ==
    /\ FailedWithinTimeout
    /\ config.max_retries = 2
    /\ cb.failure_threshold = 1
    /\ rs["retry_async"].invocations = 3
    /\ streak.fails = 1
    /\ cb.failure_count = 1
    /\ ~last.ret

\* the last step found the breaker open and left it closed
ClosedByLastStep == last.op # "none" /\ last.pre.is_open /\ ~cb.is_open

\* the time between the last recorded failure and the last step exceeds the
\* recovery timeout
WindowElapsed ==
    last.at - last.pre.last_failure_time > last.pre.recovery_timeout

\* C37 as stated: with call_async invocations interleaved on one breaker,
\* an open breaker is closed by a step of a call_async only when more than
\* recovery_timeout has elapsed since the last failure, also when the call
\* was admitted before the breaker opened and completes afterwards.
C37_Original ==
    (ClosedByLastStep /\ last.op \in {"call_enter", "call_finish"})
        => WindowElapsed

\* C37 amended: an open breaker is left closed only by a should_attempt (direct
\* or at the start of a call_async) made after more than recovery_timeout
\* since the last failure, or by a recorded success, which a call admitted
\* before the breaker opened records when it completes; such a call failing
\* instead keeps the breaker open and restarts the window; while the breaker
\* is open and inside its window no call is admitted, whatever the other
\* task is doing.
C37_OpenUntilTimeoutOrSuccess ==
    /\ ClosedByLastStep =>
           \/ SuccessRecorded
           \/ /\ last.op \in {"should_attempt", "call_enter"}
              /\ last.ret
              /\ WindowElapsed
    /\ (last.op = "call_finish" /\ last.pre.is_open
            /\ calls[last.proc].recorded # <<"record_success">>) =>
           /\ cb.is_open
           /\ calls[last.proc].recorded = <<"record_failure">> =>
                  cb.last_failure_time = last.at
    /\ (last.op \in {"should_attempt", "call_enter"}
            /\ Rejecting(last.pre, last.at)) =>
           /\ ~last.ret
           /\ cb.is_open
           /\ last.op = "call_enter" => calls[last.proc].invoked = 0

\* two calls in flight; one fails and opens the breaker, the other, admitted
\* before, returns inside the window and closes it
C37_Witness ==
    /\ last.op = "call_finish"
    /\ calls[last.proc].recorded = <<"record_success">>
    /\ last.pre.is_open
    /\ ~WindowElapsed
    /\ ~cb.is_open
    /\ \E q \in Procs \ {last.proc} :
           /\ calls[q].pc = "done"
           /\ calls[q].recorded = <<"record_failure">>
    /\ should_attempt(cb, now).ret

\* both invocations have ended, with a result or a raised error
Terminated ==
    \A v \in Variants :
        rs[v].pc = "done" /\ rs[v].result.tag \in {"return", "raise"}

\* C38: every retry_async / retry_sync invocation terminates with a result
\* or a raised error, and never makes more than max_retries + 1 invocations
\* of the operation or more than max_retries waits, given that each
\* invocation of the operation and each wait ends.
C38_Terminates ==
    /\ [](\A v \in Variants :
              /\ rs[v].invocations <= config.max_retries + 1
              /\ Waits(v) <= config.max_retries)
    /\ <>[]Terminated

\* the longest run: every attempt failed, all of the policy's attempts and
\* waits were used
C38_Witness ==
    /\ Terminated
    /\ config.max_retries = MaxRetries
    /\ \A v \in Variants :
           /\ rs[v].invocations = MaxRetries + 1
           /\ Waits(v) = MaxRetries
           /\ rs[v].result = script[MaxRetries + 1]
====
